---------------------------- MODULE Spec2Model ----------------------------
(***************************************************************************)
(* A model of the DepUp package revision pipeline, its integrity ledger    *)
(* and its sync batch orchestrator.                                         *)
(*                                                                         *)
(*   Spec       one pipeline process (scripts/depup.mjs, processPackage)   *)
(*              invoked again and again: the single-writer deployment.     *)
(*   SpecRace   two pipeline processes on the same package directory.      *)
(*   SpecLedger the vote ledger (scripts/integrity-meter.mjs) and the      *)
(*              pipeline's outcome writer on one package's files.          *)
(*   SpecScore  the integrity snapshot computed from arbitrary tallies.    *)
(*   SpecSync   the sync orchestrator (PackageSyncer.main).                *)
(*   SpecLedgerRace  two ledger writers whose file reads and writes        *)
(*              interleave.                                                *)
(*   SpecBump   one call of bumpDependencies on arbitrary manifests.       *)
(*   SpecTest   one call of testPackage, in each of its two definitions.   *)
(*                                                                         *)
(* Registry requests, downloads, installs and publishes can fail or time   *)
(* out; calls on the local filesystem are taken to succeed, except the     *)
(* creation and writing of the test harness in SpecTest.                   *)
(***************************************************************************)
EXTENDS Integers, Sequences, FiniteSets, TLC

\* ------------------------------------------------------------------ bounds

\* Pipeline invocations in one behaviour.
MaxRuns == 3

\* Ledger operations (votes and recorded outcomes) in one behaviour.
MaxOps == 3

\* Largest single counter of a tally handed to the snapshot computation.
MaxCount == 10

\* Package directories under packages/ in a sync run.
MaxPackages == 3

\* Commands of the approval workflow in one behaviour.
MaxCommands == 3

\* ------------------------------------------------------------- value sets

None == <<>>
Some(x) == <<x>>

\* Upstream versions of the package being cloned, as (major, minor, patch).
BaseVersions == {<<1, 0, 0>>, <<1, 1, 0>>}

\* Revision indices a vote may name (the pipeline computes its own).
VoteRevisions == {0, 1}

Procs == {1, 2}

DepNames == {"a", "b", "c"}

\* Versions the registry may report as a dependency's latest.
LatestVersions == {<<1, 0, 0>>, <<4, 0, 0>>}

\* What resolving `${depName}@latest` can yield: a version, or a rejection
\* (registry error, or the per-dependency timeout winning the race).
LatestOutcomes == LatestVersions \cup {<<"fail">>}

\* What npm publish (with its npm install) can end in.
PublishOutcomes == {"ok", "no_token", "install_fail", "registry_reject", "timeout"}

\* What pacote.extract raced against the timeout can end in: the package is
\* extracted; the call fails after the target directory was created; the
\* call fails (or the timeout wins) before anything was created.
ExtractOutcomes == {"ok", "fail_partial", "fail_nothing"}

Max(S) == CHOOSE x \in S : \A y \in S : y <= x

\* ------------------------------------------------------------- variables

VARIABLES
  run,          \* per process: the position and locals of processPackage
  runsStarted,  \* invocations so far
  revDirs,      \* per base version: the n with a directory rev-n
  revManifest,  \* per (base version, n): the version in rev-n/package.json
  integrity,    \* integrity.json of the package: None when absent
  votes,        \* votes.json of the package: None when absent
  registry,     \* versions npm accepted for @depup/<package>
  allocLog,     \* per base version: the indices computed, in call order
  createLog,    \* per base version: the indices whose directory was created
  clock,        \* logical time read by new Date()
  opsDone,      \* ledger operations so far
  lastOp,       \* the ledger operation just performed
  tally,        \* SpecScore: the tally handed to the snapshot computation
  scored,       \* SpecScore: whether the snapshot was computed
  packagesDir,  \* SpecSync: the entries of packages/
  concurrentPackages, \* SpecSync: the worker bound
  worklist,     \* SpecSync: packagesToProcess
  batchStart,   \* SpecSync: the loop index i
  item,         \* SpecSync: per worklist position, the item's state
  syncedPackages, \* SpecSync: names collected from fulfilled results
  syncPc,       \* SpecSync: position of main
  sleeps,       \* SpecSync: pacing delays that have elapsed
  writer,       \* SpecLedgerRace: per process, a ledger write in progress
  bumpCall,     \* SpecBump: one call of bumpDependencies
  harness,      \* SpecTest: one call of testPackage
  call,         \* one call of a function: its name, arguments and result
  secure,       \* SpecSecure: one run of processPackageSecurely
  workflow      \* SpecApproval: the files of the approval workflow

pipeVars == <<run, runsStarted, revDirs, revManifest, registry, allocLog, createLog>>
ledgerVars == <<integrity, votes, clock, opsDone, lastOp>>
scoreVars == <<tally, scored>>
syncVars == <<packagesDir, concurrentPackages, worklist, batchStart, item,
              syncedPackages, syncPc, sleeps>>
restVars == <<call, secure, workflow>>
unitVars == <<writer, bumpCall, harness, restVars>>
vars == <<pipeVars, ledgerVars, scoreVars, syncVars, unitVars>>


\* ------------------------------------------------- the persisted JSON files

Keys == BaseVersions \X Nat

\* JSON.parse of a file, or {} when the read throws (file absent).
ReadJson(file) == IF file = None THEN <<>> ELSE file[1]

\* data[version] && data[version][revision]: a mapping is a function from the
\* (version, revision) keys present to their entries.
HasKey(data, k) == k \in DOMAIN data

Put(data, k, e) == [x \in (DOMAIN data) \cup {k} |-> IF x = k THEN e ELSE data[x]]

\* Version strings are sequences of characters. String(n) of an integer.
DigitChars == <<"0", "1", "2", "3", "4", "5", "6", "7", "8", "9">>

RECURSIVE NaturalToString(_)
NaturalToString(n) ==
  IF n < 10 THEN <<DigitChars[n + 1]>>
  ELSE NaturalToString(n \div 10) \o <<DigitChars[(n % 10) + 1]>>

NumberToString(n) ==
  IF n < 0 THEN <<"-">> \o NaturalToString(0 - n) ELSE NaturalToString(n)

\* manifest.version of an upstream release (major, minor, patch).
VersionText(v) ==
  NumberToString(v[1]) \o <<".">> \o NumberToString(v[2]) \o <<".">> \o NumberToString(v[3])

DepupTag == <<"-", "d", "e", "p", "u", "p", ".">>

MutProduceVersionDropsRevision(baseVersion, revision) == baseVersion \o DepupTag \o <<"0">>

\* `${baseVersion}-depup.${revision}`
ProduceVersion(baseVersion, revision) ==
  baseVersion \o DepupTag \o NumberToString(revision)

\* An entry of integrity.json. The pipeline writes version, timestamp and
\* status together (outcome); the integrity meter writes integrity.
EmptyEntry == [outcome |-> None, integrity |-> None]

Now == clock

\* DepUp.updateIntegrityData: integrityData[baseVersion][revision] is
\* replaced by a fresh object {version, timestamp, status}.
DepUpIntegrityData(data, baseVersion, revision, version, status) ==
  Put(data, <<baseVersion, revision>>,
      [outcome |-> Some([version |-> version, timestamp |-> Now, status |-> status]),
       integrity |-> None])

MutOutcomeOverwritesFile(file, baseVersion, revision, version, status) ==
  Some(DepUpIntegrityData(<<>>, baseVersion, revision, version, status))

DepUpUpdateIntegrityData(file, baseVersion, revision, version, status) ==
  Some(DepUpIntegrityData(ReadJson(file), baseVersion, revision, version, status))

\* Math.round(x) for x = num / den, den > 0: the integer floor(x + 1/2).
MathRound(num, den) == (2 * num + den) \div (2 * den)

MutScoreNotNormalised(voteData) == 100 * (voteData.up - voteData.down)

MutScoreTruncates(voteData) ==
  LET total == voteData.up + voteData.down + voteData.neutral
      d == voteData.up - voteData.down
  IN  IF total > 0
      THEN IF d >= 0 THEN (100 * d) \div total ELSE -((100 * (-d)) \div total)
      ELSE 0

\* Math.round(total > 0 ? ((up - down) / total) * 100 : 0). The quotient is
\* taken exactly: for totals below 40, which covers the model's tallies, the
\* double ((up - down) / total) * 100 rounds to the same integer.
Score(voteData) ==
  LET total == voteData.up + voteData.down + voteData.neutral
  IN  IF total > 0
      THEN MathRound(100 * (voteData.up - voteData.down), total)
      ELSE 0

Snapshot(voteData) ==
  [score |-> Score(voteData),
   totalVotes |-> voteData.up + voteData.down + voteData.neutral,
   upVotes |-> voteData.up,
   downVotes |-> voteData.down,
   neutralVotes |-> voteData.neutral,
   lastUpdated |-> Now]

MutMeterReplacesEntry(data, version, revision, voteData) ==
  Put(data, <<version, revision>>,
      [outcome |-> None, integrity |-> Some(Snapshot(voteData))])

\* IntegrityMeter.updateIntegrityData: the entry is created when missing and
\* only its integrity field is assigned.
MeterIntegrityData(data, version, revision, voteData) ==
  LET k == <<version, revision>>
      old == IF HasKey(data, k) THEN data[k] ELSE EmptyEntry
  IN  Put(data, k, [old EXCEPT !.integrity = Some(Snapshot(voteData))])

MeterUpdateIntegrityData(file, version, revision, voteData) ==
  Some(MeterIntegrityData(ReadJson(file), version, revision, voteData))

VoteDirections == {"up", "down", "neutral"}

EmptyVotes == [up |-> 0, down |-> 0, neutral |-> 0, details |-> <<>>]

Detail(vote, description) ==
  [id |-> Now, vote |-> vote, description |-> description, timestamp |-> Now,
   user |-> "anonymous"]

MutAddVoteSkipsDetail(voteData, vote, description) ==
  [voteData EXCEPT ![vote] = @ + 1]

MutAddVoteResetsDetails(voteData, vote, description) ==
  [voteData EXCEPT ![vote] = @ + 1, !.details = <<Detail(vote, description)>>]

\* votes[version][revision][vote]++ and details.push({...})
AddVote(voteData, vote, description) ==
  [voteData EXCEPT ![vote] = @ + 1,
                   !.details = Append(@, Detail(vote, description))]

\* IntegrityMeter.vote up to the write of votes.json.
VotesData(data, version, revision, vote, description) ==
  LET k == <<version, revision>>
      old == IF HasKey(data, k) THEN data[k] ELSE EmptyVotes
  IN  Put(data, k, AddVote(old, vote, description))


\* ------------------------------------------------------- dependency bump

\* A declared range: an optional operator and a version.
Range(op, v) == [op |-> op, v |-> v]

\* package.json as extracted from the upstream tarball: "a" is a
\* dependency, "b" a devDependency, "c" is declared in both sections.
UpstreamDependencies ==
  [n \in {"a", "c"} |-> IF n = "a" THEN Range("^", <<1, 0, 0>>) ELSE Range("^", <<3, 0, 0>>)]

UpstreamDevDependencies ==
  [n \in {"b", "c"} |-> IF n = "b" THEN Range("~", <<1, 2, 0>>) ELSE Range("^", <<2, 0, 0>>)]

\* The scripts of the upstream package.json: version 1.1.0 of the package
\* declares a postinstall hook, version 1.0.0 does not.
UpstreamScripts(baseVersion) ==
  IF baseVersion = <<1, 1, 0>> THEN {"test", "postinstall"} ELSE {"test"}

UpstreamPackageJson(baseVersion) ==
  [name |-> "pkg", version |-> Some(baseVersion),
   scripts |-> UpstreamScripts(baseVersion),
   dependencies |-> UpstreamDependencies,
   devDependencies |-> UpstreamDevDependencies]

\* currentVersion.replace(/^[\^~]/, ''): a leading ^ or ~ is removed, any
\* other operator stays in the string.
CleanVersion(range) == IF range.op \in {"^", "~"} THEN [range EXCEPT !.op = ""] ELSE range

\* Whether semver accepts the string as a version; semver.gt throws a
\* TypeError on any other string.
ValidVersion(clean) == clean.op = "" /\ Len(clean.v) = 3

\* pacote.manifest(`${depName}@latest`) won the race and resolved.
Resolved(outcome) == Len(outcome) = 3

\* semver.gt on (major, minor, patch)
SemverGt(x, y) ==
  \/ x[1] > y[1]
  \/ x[1] = y[1] /\ x[2] > y[2]
  \/ x[1] = y[1] /\ x[2] = y[2] /\ x[3] > y[3]

\* { ...packageJson.dependencies, ...packageJson.devDependencies }
MergedDependencies(packageJson) ==
  [n \in (DOMAIN packageJson.dependencies) \cup (DOMAIN packageJson.devDependencies) |->
     IF n \in DOMAIN packageJson.devDependencies
     THEN packageJson.devDependencies[n]
     ELSE packageJson.dependencies[n]]

\* Whether the loop body of bumpDependencies rewrites depName: the latest
\* manifest resolved and semver.gt(latestVersion, cleanCurrentVersion).
\* A rejection or a throw inside the loop body is caught there and the
\* loop goes on with the next name.
Throws(packageJson, latest, depName) ==
  \/ ~Resolved(latest[depName])
  \/ ~ValidVersion(CleanVersion(MergedDependencies(packageJson)[depName]))

MutBumpsAbortsOnFailure(packageJson, latest, depName) ==
  /\ \A n \in DOMAIN MergedDependencies(packageJson) : ~Throws(packageJson, latest, n)
  /\ SemverGt(latest[depName], CleanVersion(MergedDependencies(packageJson)[depName]).v)

Bumps(packageJson, latest, depName) ==
  /\ ~Throws(packageJson, latest, depName)
  /\ SemverGt(latest[depName], CleanVersion(MergedDependencies(packageJson)[depName]).v)

\* The manifest after bumpDependencies: `^${latestVersion}` in each section
\* that holds the name.
BumpedPackageJson(packageJson, latest) ==
  [packageJson EXCEPT
     !.dependencies = [n \in DOMAIN @ |->
        IF Bumps(packageJson, latest, n) THEN Range("^", latest[n]) ELSE @[n]],
     !.devDependencies = [n \in DOMAIN @ |->
        IF Bumps(packageJson, latest, n) THEN Range("^", latest[n]) ELSE @[n]]]

\* updatedCount as returned by bumpDependencies.
UpdatedCount(packageJson, latest) ==
  Cardinality({n \in DOMAIN MergedDependencies(packageJson) : Bumps(packageJson, latest, n)})

\* Declared ranges a manifest may hold: with and without an operator the
\* cleaning removes, with one it keeps, and a range that is no version.
DeclaredRanges ==
  {Range("^", <<1, 0, 0>>), Range("~", <<2, 0, 0>>), Range("", <<3, 0, 0>>),
   Range(">=", <<1, 0, 0>>), Range("", <<"*">>)}

\* Manifests handed to bumpDependencies: "a" is a dependency, "b" a
\* devDependency, "c" is declared in both sections.
BumpManifests ==
  [name : {"@depup/pkg"}, version : {Some(ProduceVersion(VersionText(<<1, 0, 0>>), 0))},
   dependencies : [{"a", "c"} -> DeclaredRanges],
   devDependencies : [{"b", "c"} -> DeclaredRanges]]

\* What resolving a dependency's latest version can yield in a bump pass.
BumpLatestOutcomes == {<<1, 0, 0>>, <<2, 5, 0>>, <<4, 0, 0>>, <<"fail">>}

\* ------------------------------------------------------------- pipeline

Options == [bumpDeps : BOOLEAN, publish : BOOLEAN, test : BOOLEAN, dryRun : BOOLEAN]

NoOptions == [bumpDeps |-> FALSE, publish |-> FALSE, test |-> FALSE, dryRun |-> FALSE]

\* The locals of one invocation of processPackage.
IdleRun ==
  [pc |-> "idle", options |-> NoOptions, baseVersion |-> <<0, 0, 0>>,
   revision |-> 0, packageJson |-> None, dependenciesUpdated |-> 0,
   testOutcome |-> "none", testPassed |-> TRUE, publishCalled |-> FALSE,
   published |-> FALSE,
   error |-> "", recorded |-> None]

MutNextRevisionNoIncrement(revs) == IF revs # {} THEN Max(revs) ELSE 0

\* The revision number computed from the entries of versionDirectory:
\* Math.max(...revs) + 1 when there is a rev-n directory, else 0.
NextRevision(revs) == IF revs # {} THEN Max(revs) + 1 ELSE 0

MutShouldPublishAlways(revision, dependenciesUpdated) == TRUE

\* shouldPublishThis
ShouldPublishThis(revision, dependenciesUpdated) ==
  revision = 0 \/ dependenciesUpdated > 0

MutOutcomeStatusIgnoresPublished(shouldPublish, published) ==
  IF shouldPublish THEN "published" ELSE "prepared"

MutOutcomeStatusSkipIsPrepared(shouldPublish, published) ==
  IF shouldPublish /\ published THEN "published" ELSE "prepared"

\* shouldPublish ? (published ? 'published' : 'skipped') : 'prepared'
OutcomeStatus(shouldPublish, published) ==
  IF shouldPublish THEN (IF published THEN "published" ELSE "skipped") ELSE "prepared"

Ended(p) == run[p].pc \in {"idle", "done", "failed"}

\* A new invocation with options from optionSet: pacote.manifest(packageSpec)
\* is raced against the timeout. A rejection ends the run with an error.
StartRun(p, optionSet) ==
  /\ Ended(p)
  /\ runsStarted < MaxRuns
  /\ runsStarted' = runsStarted + 1
  /\ \E o \in optionSet, b \in BaseVersions, ok \in BOOLEAN :
       run' = [run EXCEPT ![p] =
                 IF ok
                 THEN [IdleRun EXCEPT !.pc = "fetched", !.options = o, !.baseVersion = b]
                 ELSE [IdleRun EXCEPT !.pc = "failed", !.options = o, !.error = "manifest"]]
  /\ UNCHANGED <<revDirs, revManifest, registry, allocLog, createLog>>
  /\ UNCHANGED <<ledgerVars, scoreVars, syncVars, unitVars>>

\* The command line: any combination of the flags.
FetchManifest(p) == StartRun(p, Options)

\* The flags of the orchestrators' child invocation:
\* node scripts/depup.mjs <name>@<version> --bump-deps --test --publish
ChildOptions == [bumpDeps |-> TRUE, publish |-> TRUE, test |-> TRUE, dryRun |-> FALSE]

\* A process that is invoked once, as an orchestrator's child.
FetchManifestChild(p) == run[p].pc = "idle" /\ StartRun(p, {ChildOptions})

MutDryRunIgnored(options) == FALSE

\* if (dryRun) { ...; return; }
DryRun(options) == options.dryRun

\* if (dryRun) return, before the first filesystem call.
DryRunReturn(p) ==
  /\ run[p].pc = "fetched"
  /\ DryRun(run[p].options)
  /\ run' = [run EXCEPT ![p].pc = "done"]
  /\ UNCHANGED <<runsStarted, revDirs, revManifest, registry, allocLog, createLog>>
  /\ UNCHANGED <<ledgerVars, scoreVars, syncVars, unitVars>>

\* mkdir(versionDirectory), readdir, and the revision number.
Allocate(p) ==
  /\ run[p].pc = "fetched"
  /\ ~DryRun(run[p].options)
  /\ LET b == run[p].baseVersion
         r == NextRevision(revDirs[b])
     IN  /\ run' = [run EXCEPT ![p].pc = "allocated", ![p].revision = r]
         /\ allocLog' = [allocLog EXCEPT ![b] = Append(@, r)]
  /\ UNCHANGED <<runsStarted, revDirs, revManifest, registry, createLog>>
  /\ UNCHANGED <<ledgerVars, scoreVars, syncVars, unitVars>>

\* pacote.extract(packageSpec, targetDirectory) raced against the timeout.
Extract(p) ==
  /\ run[p].pc = "allocated"
  /\ LET b == run[p].baseVersion
         r == run[p].revision
     IN \E out \in ExtractOutcomes :
          /\ run' = [run EXCEPT ![p].pc = IF out = "ok" THEN "extracted" ELSE "failed",
                                ![p].error = IF out = "ok" THEN "" ELSE "extract"]
          /\ revDirs' = IF out = "fail_nothing" THEN revDirs
                        ELSE [revDirs EXCEPT ![b] = @ \cup {r}]
          /\ createLog' = IF out = "fail_nothing" THEN createLog
                          ELSE [createLog EXCEPT ![b] = Append(@, r)]
          /\ revManifest' = IF out = "ok"
                            THEN Put(revManifest, <<b, r>>, Some(b))
                            ELSE revManifest
  /\ UNCHANGED <<runsStarted, registry, allocLog>>
  /\ UNCHANGED <<ledgerVars, scoreVars, syncVars, unitVars>>

\* package.json is read, renamed and re-versioned, its dependencies are
\* bumped when requested, and it is written back.
Rewrite(p) ==
  /\ run[p].pc = "extracted"
  /\ LET b == run[p].baseVersion
         r == run[p].revision
         renamed == [UpstreamPackageJson(b) EXCEPT
                       !.name = "@depup/pkg", !.version = Some(ProduceVersion(VersionText(b), r))]
     IN \E latest \in [DepNames -> LatestOutcomes] :
          /\ run[p].options.bumpDeps \/ latest = [n \in DepNames |-> <<"fail">>]
          /\ LET bump == run[p].options.bumpDeps
                 packageJson == IF bump THEN BumpedPackageJson(renamed, latest) ELSE renamed
             IN  /\ run' = [run EXCEPT
                        ![p].pc = "rewritten",
                        ![p].packageJson = Some(packageJson),
                        ![p].dependenciesUpdated =
                           IF bump THEN UpdatedCount(renamed, latest) ELSE 0]
                 /\ revManifest' = Put(revManifest, <<b, r>>, packageJson.version)
  /\ UNCHANGED <<runsStarted, revDirs, registry, allocLog, createLog>>
  /\ UNCHANGED <<ledgerVars, scoreVars, syncVars, unitVars>>

\* How the import test of testPackage can end: it passes, it fails or times
\* out, or it cannot run because the harness could not be set up.
TestOutcomes == {"ok", "fail", "cannot_run"}

\* testPackage returns true after the import test passed and false from its
\* catch block otherwise.
TestPassed(outcome) == outcome = "ok"

MutTestFailureAborts(p) ==
  /\ run[p].pc = "rewritten"
  /\ \E out \in TestOutcomes \cup {"none"} :
       /\ run[p].options.test <=> out # "none"
       /\ run' = [run EXCEPT
            ![p].pc = IF out \in {"ok", "none"} THEN "tested" ELSE "failed",
            ![p].error = IF out \in {"ok", "none"} THEN "" ELSE "test",
            ![p].testOutcome = out,
            ![p].testPassed = out = "none" \/ TestPassed(out)]
  /\ UNCHANGED <<runsStarted, revDirs, revManifest, registry, allocLog, createLog>>
  /\ UNCHANGED <<ledgerVars, scoreVars, syncVars, unitVars>>

\* if (shouldTest) testPassed = await this.testPackage(...): a warning only.
Test(p) ==
  /\ run[p].pc = "rewritten"
  /\ \E out \in TestOutcomes \cup {"none"} :
       /\ run[p].options.test <=> out # "none"
       /\ run' = [run EXCEPT ![p].pc = "tested", ![p].testOutcome = out,
                             ![p].testPassed = out = "none" \/ TestPassed(out)]
  /\ UNCHANGED <<runsStarted, revDirs, revManifest, registry, allocLog, createLog>>
  /\ UNCHANGED <<ledgerVars, scoreVars, syncVars, unitVars>>

\* The publish gate and publishPackage, which throws on every failure. The
\* registry accepts a version once.
PublishGate(p) ==
  /\ run[p].pc = "tested"
  /\ LET version == run[p].packageJson[1].version[1]
         gate == /\ run[p].options.publish
                 /\ ShouldPublishThis(run[p].revision, run[p].dependenciesUpdated)
     IN \E out \in PublishOutcomes :
          /\ gate \/ out = "ok"
          /\ out = "ok" /\ gate => version \notin registry
          /\ run' = [run EXCEPT
                 ![p].pc = IF gate /\ out # "ok" THEN "failed" ELSE "gated",
                 ![p].error = IF gate /\ out # "ok" THEN "publish" ELSE "",
                 ![p].publishCalled = gate,
                 ![p].published = gate /\ out = "ok"]
          /\ registry' = IF gate /\ out = "ok" THEN registry \cup {version} ELSE registry
  /\ UNCHANGED <<runsStarted, revDirs, revManifest, allocLog, createLog>>
  /\ UNCHANGED <<ledgerVars, scoreVars, syncVars, unitVars>>

\* updateIntegrityData(packageDirectory, baseVersion, revision, version, status)
RecordOutcome(p) ==
  /\ run[p].pc = "gated"
  /\ LET status == OutcomeStatus(run[p].options.publish, run[p].published)
     IN  /\ integrity' = DepUpUpdateIntegrityData(integrity, run[p].baseVersion,
                            run[p].revision, run[p].packageJson[1].version[1], status)
         /\ run' = [run EXCEPT ![p].pc = "done", ![p].recorded = Some(status)]
  /\ clock' = clock + 1
  /\ UNCHANGED <<runsStarted, revDirs, revManifest, registry, allocLog, createLog>>
  /\ UNCHANGED <<votes, opsDone, lastOp, scoreVars, syncVars, unitVars>>

Step(p) ==
  \/ FetchManifest(p)
  \/ DryRunReturn(p)
  \/ Allocate(p)
  \/ Extract(p)
  \/ Rewrite(p)
  \/ Test(p)
  \/ PublishGate(p)
  \/ RecordOutcome(p)

NoOp == [op |-> "none"]

InitFiles ==
  /\ revDirs = [b \in BaseVersions |-> {}]
  /\ revManifest = <<>>
  /\ integrity = None
  /\ votes = None
  /\ registry = {}
  /\ clock = 0

InitPipeline ==
  /\ run = [p \in Procs |-> IdleRun]
  /\ runsStarted = 0
  /\ allocLog = [b \in BaseVersions |-> <<>>]
  /\ createLog = [b \in BaseVersions |-> <<>>]

InitLedger ==
  /\ opsDone = 0
  /\ lastOp = NoOp

InitScore ==
  /\ tally = [up |-> 0, down |-> 0, neutral |-> 0, details |-> <<>>]
  /\ scored = FALSE

InitSync ==
  /\ packagesDir = <<>>
  /\ concurrentPackages = 5
  /\ worklist = <<>>
  /\ batchStart = 0
  /\ item = <<>>
  /\ syncedPackages = <<>>
  /\ syncPc = "idle"
  /\ sleeps = 0

\* No ledger write, bump pass or package test is in progress.
IdleWriter ==
  [pc |-> "idle", op |-> "none", version |-> <<0, 0, 0>>, revision |-> 0,
   vote |-> "", votesData |-> <<>>, integrityData |-> <<>>]

IdleBump == [pc |-> "idle"]

IdleHarness ==
  [definition |-> "current", pc |-> "idle", method |-> 1, exists |-> FALSE,
   log |-> <<>>, result |-> "none"]

NoCall == [fn |-> "none"]

IdleSecure == [pc |-> "idle"]

NoWorkflow == [pc |-> "idle"]

InitRest ==
  /\ call = NoCall
  /\ secure = IdleSecure
  /\ workflow = NoWorkflow

InitUnit ==
  /\ writer = [p \in Procs |-> IdleWriter]
  /\ bumpCall = IdleBump
  /\ harness = IdleHarness
  /\ InitRest

Init == InitFiles /\ InitPipeline /\ InitLedger /\ InitScore /\ InitSync /\ InitUnit

\* One pipeline process, invoked again after it ended.
Next == Step(1)

Spec == Init /\ [][Next]_vars


\* Two pipeline processes started independently on the same package
\* directory (two workflow runs, two shells): nothing orders their steps.
NextRace ==
  \E p \in Procs :
    \/ FetchManifestChild(p)
    \/ Allocate(p)
    \/ Extract(p)
    \/ Rewrite(p)
    \/ Test(p)
    \/ PublishGate(p)
    \/ RecordOutcome(p)

SpecRace == Init /\ [][NextRace]_vars


\* ------------------------------------------------- pipeline properties

\* The run of p has passed the publish gate.
PastGate(p) ==
  \/ run[p].pc = "gated"
  \/ run[p].pc = "done" /\ run[p].recorded # None
  \/ run[p].pc = "failed" /\ run[p].error = "publish"

\* C1: in every pipeline run, publishPackage is called if and only if
\* publish was requested and (the revision is 0 or the bump pass returned
\* dependenciesUpdated > 0); a run that has not reached the gate has not
\* called it.
C1_PublishIffRequestedAndNovel ==
  \A p \in Procs :
    /\ PastGate(p) =>
         (run[p].publishCalled <=>
            /\ run[p].options.publish
            /\ (run[p].revision = 0 \/ run[p].dependenciesUpdated > 0))
    /\ ~PastGate(p) => ~run[p].publishCalled /\ ~run[p].published

\* Revision 1 with three dependencies bumped and publish requested: published.
C1_Witness ==
  /\ run[1].pc = "gated"
  /\ run[1].options.publish
  /\ run[1].revision = 1
  /\ run[1].dependenciesUpdated = 3
  /\ run[1].published

StatusOf(k) ==
  LET data == ReadJson(integrity)
  IN  IF HasKey(data, k) /\ data[k].outcome # None THEN data[k].outcome[1].status ELSE "none"

\* C2: an entry with status published exists for a revision only if the
\* registry accepted that revision's version, and a run whose publish step
\* failed leaves no published entry for its revision.
C2_PublishedOnlyAfterPublish ==
  /\ \A k \in DOMAIN ReadJson(integrity) :
       StatusOf(k) = "published" => ProduceVersion(VersionText(k[1]), k[2]) \in registry
  /\ \A p \in Procs :
       run[p].pc = "failed" /\ run[p].error = "publish" =>
         StatusOf(<<run[p].baseVersion, run[p].revision>>) # "published"

\* A run failed at publish while an earlier revision stands as published.
C2_Witness ==
  /\ run[1].pc = "failed"
  /\ run[1].error = "publish"
  /\ \E k \in DOMAIN ReadJson(integrity) : StatusOf(k) = "published"

C4_OverlappingRunsDistinctIndex ==
  \A p, q \in Procs :
    /\ p # q
    /\ run[p].pc \in {"allocated", "extracted", "rewritten", "tested", "gated"}
    /\ run[q].pc \in {"allocated", "extracted", "rewritten", "tested", "gated"}
    /\ run[p].baseVersion = run[q].baseVersion
    => run[p].revision # run[q].revision

\* The run of p returned a result after writing its ledger entry.
Completed(p) == run[p].pc = "done" /\ run[p].recorded # None

\* C13: for every run that completes without error, the status recorded for
\* its revision is skipped exactly when publish was requested and the gate
\* declined, published exactly when publish was requested and performed, and
\* prepared exactly when publish was not requested; a run whose gate declined
\* completes with a result and no error.
C13_StatusMatchesDecision ==
  \A p \in Procs :
    /\ Completed(p) =>
         LET st == StatusOf(<<run[p].baseVersion, run[p].revision>>)
         IN  /\ run[p].error = ""
             /\ run[p].recorded = Some(st)
             /\ st \in {"skipped", "published", "prepared"}
             /\ st = "skipped" <=> run[p].options.publish /\ ~run[p].publishCalled
             /\ st = "published" <=> run[p].options.publish /\ run[p].published
             /\ st = "prepared" <=> ~run[p].options.publish
    /\ run[p].pc = "gated" /\ run[p].options.publish /\ ~run[p].publishCalled =>
         run[p].error = ""

\* A run for revision 1 with publish requested and no dependency updated
\* completed with status skipped.
C13_Witness ==
  /\ Completed(1)
  /\ run[1].options.publish
  /\ run[1].revision = 1
  /\ run[1].dependenciesUpdated = 0
  /\ StatusOf(<<run[1].baseVersion, 1>>) = "skipped"

\* C14: a run that allocated a revision index has recorded an outcome for it
\* by the time it ends: prepared, skipped or published when it completed,
\* failed when it failed after allocation; so every rev-n directory whose run
\* has ended has a status entry.
C14_AllocatedRunRecordsOutcome ==
  /\ \A p \in Procs :
       LET st == StatusOf(<<run[p].baseVersion, run[p].revision>>)
       IN  /\ Completed(p) => st \in {"prepared", "skipped", "published"}
           /\ run[p].pc = "failed" /\ run[p].error \in {"extract", "publish"} =>
                st = "failed"
  /\ \A b \in BaseVersions : \A r \in revDirs[b] :
       (\A p \in Procs : Ended(p) \/ <<run[p].baseVersion, run[p].revision>> # <<b, r>>)
         => StatusOf(<<b, r>>) # "none"

\* dangerousScripts of SecureDepUp.validateProcessedPackage
DangerousScripts == {"preinstall", "postinstall", "preuninstall", "postuninstall"}

\* validateProcessedPackage: the name starts with @depup/ and no dangerous
\* script is declared.
ValidForPublish(packageJson) ==
  /\ packageJson.name = "@depup/pkg"
  /\ packageJson.scripts \cap DangerousScripts = {}

\* C17: when the decision is to publish and the manifest is not scoped
\* @depup/ or declares preinstall, postinstall, preuninstall or
\* postuninstall, the run does not publish: it fails at the gate and its
\* revision is recorded with status failed.
C17_InvalidManifestNotPublished ==
  \A p \in Procs :
    (/\ PastGate(p)
     /\ run[p].options.publish
     /\ run[p].revision = 0 \/ run[p].dependenciesUpdated > 0
     /\ ~ValidForPublish(run[p].packageJson[1]))
    => /\ ~run[p].published
       /\ run[p].pc = "failed"
       /\ StatusOf(<<run[p].baseVersion, run[p].revision>>) = "failed"

\* C18: no step of a run started with the dry-run flag, whatever its other
\* flags, creates a directory, extracts, writes a manifest, publishes or
\* writes a ledger entry: the package's files and the registry are the same
\* after each of its steps as before, and it ends without a recorded status.
C18_DryRunTouchesNothing ==
  [][\A p \in Procs :
       run'[p].options.dryRun =>
         /\ UNCHANGED <<revDirs, revManifest, integrity, votes, registry, allocLog, createLog>>
         /\ run'[p].pc \in {"fetched", "done", "failed"}
         /\ run'[p].recorded = None
         /\ ~run'[p].publishCalled]_vars

\* A dry run with every other flag set returned while the files of an
\* earlier run are in place.
C18_Witness ==
  /\ run[1].pc = "done"
  /\ run[1].options = [bumpDeps |-> TRUE, publish |-> TRUE, test |-> TRUE, dryRun |-> TRUE]
  /\ \E b \in BaseVersions : revDirs[b] # {}
  /\ integrity # None

\* C21: testPackage yields false whenever the import test failed or could
\* not run, and the result is advisory: a failed test never ends the run,
\* and the publish decision and the recorded status are the function of
\* revision index, dependenciesUpdated and publish request that they are
\* after a passed test.
C21_TestResultAdvisory ==
  \A p \in Procs :
    LET novel == run[p].revision = 0 \/ run[p].dependenciesUpdated > 0
        st == StatusOf(<<run[p].baseVersion, run[p].revision>>)
    IN  /\ run[p].testOutcome \in {"fail", "cannot_run"} => ~run[p].testPassed
        /\ run[p].error # "test"
        /\ PastGate(p) => (run[p].publishCalled <=> run[p].options.publish /\ novel)
        /\ Completed(p) =>
             st = IF ~run[p].options.publish THEN "prepared"
                  ELSE IF novel THEN "published" ELSE "skipped"

\* A run whose import test failed completed with its revision published.
C21_Witness ==
  /\ Completed(1)
  /\ run[1].testOutcome = "fail"
  /\ ~run[1].testPassed
  /\ StatusOf(<<run[1].baseVersion, run[1].revision>>) = "published"


\* --------------------------------------------- the bump pass on its own

InitBump ==
  /\ InitFiles /\ InitPipeline /\ InitLedger /\ InitScore /\ InitSync
  /\ writer = [p \in Procs |-> IdleWriter]
  /\ harness = IdleHarness
  /\ InitRest
  /\ \E m \in BumpManifests, latest \in [DepNames -> BumpLatestOutcomes] :
       bumpCall = [pc |-> "called", before |-> m, latest |-> latest,
                   packageJson |-> m, updatedCount |-> 0]

\* bumpDependencies(packageDirectory, packageJson, debug, timeout): the
\* manifest object is rewritten in place and updatedCount is returned.
BumpDependencies ==
  /\ bumpCall.pc = "called"
  /\ bumpCall' = [bumpCall EXCEPT
       !.pc = "returned",
       !.packageJson = BumpedPackageJson(bumpCall.before, bumpCall.latest),
       !.updatedCount = UpdatedCount(bumpCall.before, bumpCall.latest)]
  /\ UNCHANGED <<pipeVars, ledgerVars, scoreVars, syncVars, writer, harness, restVars>>

SpecBump == InitBump /\ [][BumpDependencies]_vars

\* The declared version of a manifest entry and the latest version are both
\* versions, and the latest is not greater.
LatestNotNewer(range, outcome) ==
  /\ Resolved(outcome)
  /\ ValidVersion(CleanVersion(range))
  /\ ~SemverGt(outcome, CleanVersion(range).v)

\* C15: after bumpDependencies, every entry of dependencies and of
\* devDependencies whose own declared version is not below the latest
\* published version is as it was, also for a name declared in both sections
\* with different versions.
C15_BumpNeverDowngrades ==
  bumpCall.pc = "returned" =>
    /\ \A n \in DOMAIN bumpCall.before.dependencies :
         LatestNotNewer(bumpCall.before.dependencies[n], bumpCall.latest[n]) =>
           bumpCall.packageJson.dependencies[n] = bumpCall.before.dependencies[n]
    /\ \A n \in DOMAIN bumpCall.before.devDependencies :
         LatestNotNewer(bumpCall.before.devDependencies[n], bumpCall.latest[n]) =>
           bumpCall.packageJson.devDependencies[n] = bumpCall.before.devDependencies[n]

\* C16: a dependency whose resolution fails (registry error, timeout, or a
\* declared version semver rejects) keeps its entries and is not counted,
\* while every other name of the merged view whose latest version is greater
\* is rewritten to ^latest and counted; the call returns the count.
C16_FailuresDoNotAbortBump ==
  bumpCall.pc = "returned" =>
    LET before == bumpCall.before
        after == bumpCall.packageJson
        merged == MergedDependencies(before)
        failed(n) == \/ bumpCall.latest[n] = <<"fail">>
                     \/ merged[n].op \notin {"^", "~", ""}
                     \/ merged[n].v = <<"*">>
        newer(n) == ~failed(n) /\ SemverGt(bumpCall.latest[n], merged[n].v)
        Same(n) ==
          /\ n \in DOMAIN before.dependencies =>
               after.dependencies[n] = before.dependencies[n]
          /\ n \in DOMAIN before.devDependencies =>
               after.devDependencies[n] = before.devDependencies[n]
        Rewritten(n) ==
          /\ n \in DOMAIN before.dependencies =>
               after.dependencies[n] = Range("^", bumpCall.latest[n])
          /\ n \in DOMAIN before.devDependencies =>
               after.devDependencies[n] = Range("^", bumpCall.latest[n])
    IN  /\ \A n \in DOMAIN merged : failed(n) => Same(n)
        /\ \A n \in DOMAIN merged : newer(n) => Rewritten(n)
        /\ bumpCall.updatedCount = Cardinality({n \in DOMAIN merged : newer(n)})

\* The resolution of "a" failed, a declared version of "c" was rejected,
\* and "b" was still rewritten and counted.
C16_Witness ==
  /\ bumpCall.pc = "returned"
  /\ bumpCall.latest["a"] = <<"fail">>
  /\ bumpCall.before.devDependencies["c"] = Range("", <<"*">>)
  /\ bumpCall.before.devDependencies["b"] = Range("~", <<2, 0, 0>>)
  /\ bumpCall.packageJson.devDependencies["b"] = Range("^", <<4, 0, 0>>)
  /\ bumpCall.updatedCount = 1


\* ------------------------------------------------- testPackage on its own

\* depup.mjs holds two definitions of DepUp.testPackage: the first at lines
\* 156-228 with one install command per phase, and the current one at lines
\* 650-821 with three install strategies per phase.
TestDefinitions == {"first", "current"}

\* installMethods, in the package directory.
installMethods ==
  <<"npm install --production",
    "npm install --production --legacy-peer-deps",
    "npm install --production --force --ignore-scripts">>

\* testInstallMethods, in the harness directory.
testInstallMethods ==
  <<"npm install", "npm install --legacy-peer-deps", "npm install --force --ignore-scripts">>

\* execSync returns, throws on a non-zero exit, or throws when its timeout
\* kills the command.
ExecOutcomes == {"ok", "fail", "timeout"}

Exec(cwd, command, outcome) == [cwd |-> cwd, command |-> command, outcome |-> outcome]

MutNoBreakAfterSuccess(method, outcome) == IF method < 3 THEN method + 1 ELSE 0

\* for (const method of methods) { try { execSync(method); success = true;
\* break; } catch {} }: the position of the next strategy, 0 when the loop
\* is left.
NextMethod(method, outcome) ==
  IF outcome = "ok" THEN 0 ELSE IF method < 3 THEN method + 1 ELSE 0

InitTest ==
  /\ InitFiles /\ InitPipeline /\ InitLedger /\ InitScore /\ InitSync
  /\ writer = [p \in Procs |-> IdleWriter]
  /\ bumpCall = IdleBump
  /\ InitRest
  /\ \E d \in TestDefinitions : harness = [IdleHarness EXCEPT !.definition = d]

TestFrame == UNCHANGED <<pipeVars, ledgerVars, scoreVars, syncVars, writer, bumpCall, restVars>>

\* testPackage(packageDirectory, packageName, debug, timeout)
CallTestPackage ==
  /\ harness.pc = "idle"
  /\ harness' = [harness EXCEPT !.pc = "install"]
  /\ TestFrame

\* One install strategy in the package directory (current definition).
PackageInstall ==
  /\ harness.definition = "current"
  /\ harness.pc = "install"
  /\ \E out \in ExecOutcomes :
       LET next == NextMethod(harness.method, out)
       IN  harness' = [harness EXCEPT
             !.log = Append(@, Exec("package", installMethods[harness.method], out)),
             !.method = IF next = 0 THEN 1 ELSE next,
             !.pc = IF next = 0 THEN "mkdir" ELSE "install"]
  /\ TestFrame

\* fs.mkdir(testDirectory): in both definitions a failure is caught by the
\* outer catch and testPackage returns false.
MakeHarness ==
  /\ harness.pc = "mkdir"
  /\ \E ok \in BOOLEAN :
       harness' = IF ok
                  THEN [harness EXCEPT !.exists = TRUE, !.pc = "write"]
                  ELSE [harness EXCEPT !.pc = "returned", !.result = "false"]
  /\ TestFrame

\* The two writeFile calls inside try { ... } finally { fs.rm(testDirectory) }.
WriteHarness ==
  /\ harness.definition = "current"
  /\ harness.pc = "write"
  /\ \E ok \in BOOLEAN :
       harness' = IF ok
                  THEN [harness EXCEPT !.pc = "testInstall"]
                  ELSE [harness EXCEPT !.exists = FALSE, !.pc = "returned",
                                       !.result = "false"]
  /\ TestFrame

\* One install strategy in the harness directory (current definition).
HarnessInstall ==
  /\ harness.definition = "current"
  /\ harness.pc = "testInstall"
  /\ \E out \in ExecOutcomes :
       LET next == NextMethod(harness.method, out)
       IN  harness' = [harness EXCEPT
             !.log = Append(@, Exec("harness", testInstallMethods[harness.method], out)),
             !.method = IF next = 0 THEN 1 ELSE next,
             !.pc = IF next = 0 THEN "importTest" ELSE "testInstall"]
  /\ TestFrame

\* execSync('node test.mjs') and the finally block on the way out.
ImportTest ==
  /\ harness.definition = "current"
  /\ harness.pc = "importTest"
  /\ \E out \in ExecOutcomes :
       harness' = [harness EXCEPT
         !.log = Append(@, Exec("harness", "node test.mjs", out)),
         !.exists = FALSE,
         !.pc = "returned",
         !.result = IF out = "ok" THEN "true" ELSE "false"]
  /\ TestFrame

\* First definition: execSync('npm install --production'); a throw is
\* caught by the one catch of the function, which returns false.
FirstPackageInstall ==
  /\ harness.definition = "first"
  /\ harness.pc = "install"
  /\ \E out \in ExecOutcomes :
       harness' = [harness EXCEPT
         !.log = Append(@, Exec("package", "npm install --production", out)),
         !.pc = IF out = "ok" THEN "mkdir" ELSE "returned",
         !.result = IF out = "ok" THEN "none" ELSE "false"]
  /\ TestFrame

\* First definition: the two writeFile calls.
FirstWriteHarness ==
  /\ harness.definition = "first"
  /\ harness.pc = "write"
  /\ \E ok \in BOOLEAN :
       harness' = IF ok
                  THEN [harness EXCEPT !.pc = "testInstall"]
                  ELSE [harness EXCEPT !.pc = "returned", !.result = "false"]
  /\ TestFrame

\* First definition: execSync('npm install') in the harness directory.
FirstHarnessInstall ==
  /\ harness.definition = "first"
  /\ harness.pc = "testInstall"
  /\ \E out \in ExecOutcomes :
       harness' = [harness EXCEPT
         !.log = Append(@, Exec("harness", "npm install", out)),
         !.pc = IF out = "ok" THEN "importTest" ELSE "returned",
         !.result = IF out = "ok" THEN "none" ELSE "false"]
  /\ TestFrame

\* First definition: execSync('node test.mjs'), then fs.rm(testDir) and
\* return true; a throw skips the removal.
FirstImportTest ==
  /\ harness.definition = "first"
  /\ harness.pc = "importTest"
  /\ \E out \in ExecOutcomes :
       harness' = [harness EXCEPT
         !.log = Append(@, Exec("harness", "node test.mjs", out)),
         !.exists = IF out = "ok" THEN FALSE ELSE @,
         !.pc = "returned",
         !.result = IF out = "ok" THEN "true" ELSE "false"]
  /\ TestFrame

NextTest ==
  \/ CallTestPackage
  \/ PackageInstall
  \/ MakeHarness
  \/ WriteHarness
  \/ HarnessInstall
  \/ ImportTest
  \/ FirstPackageInstall
  \/ FirstWriteHarness
  \/ FirstHarnessInstall
  \/ FirstImportTest

SpecTest == InitTest /\ [][NextTest]_vars

\* C19: when testPackage has returned, the harness directory .test-temp
\* does not exist, whether the import test passed, the installs failed, the
\* import test failed or timed out, or writing the harness files failed.
C19_HarnessRemovedOnReturn ==
  harness.pc = "returned" => ~harness.exists

\* The install attempts of one phase, in the order they were run.
InstallAttempts(cwd) ==
  SelectSeq(harness.log, LAMBDA e : e.cwd = cwd /\ e.command # "node test.mjs")

\* The attempts are the strategies 1, 2, ... in order, and each attempt but
\* the last one failed or timed out.
InOrderUntilSuccess(attempts, methods) ==
  /\ Len(attempts) <= 3
  /\ \A i \in 1..Len(attempts) : attempts[i].command = methods[i]
  /\ \A i \in 1..(Len(attempts) - 1) : attempts[i].outcome # "ok"

\* The phase ended after a success or after all three strategies.
PhaseComplete(attempts) ==
  /\ Len(attempts) >= 1
  /\ attempts[Len(attempts)].outcome = "ok" \/ Len(attempts) = 3

\* C20: in each install phase of the current testPackage the strategies
\* run in the order plain, legacy-peer-deps, force+ignore-scripts; none runs
\* after a success and each runs only after all earlier ones failed or timed
\* out; a failure or timeout passes on to the next strategy; and after three
\* failed strategies in the harness the import test is still run.
C20_StrategiesInOrderUntilSuccess ==
  harness.definition = "current" =>
    LET pk == InstallAttempts("package")
        hs == InstallAttempts("harness")
    IN  /\ InOrderUntilSuccess(pk, installMethods)
        /\ InOrderUntilSuccess(hs, testInstallMethods)
        /\ harness.pc \in {"mkdir", "write", "testInstall", "importTest"} => PhaseComplete(pk)
        /\ harness.pc = "returned" => PhaseComplete(pk)
        /\ harness.pc = "importTest" => PhaseComplete(hs)
        /\ harness.pc = "returned" /\ Len(hs) >= 1 =>
             /\ PhaseComplete(hs)
             /\ harness.log[Len(harness.log)].command = "node test.mjs"
        /\ harness.pc = "install" => Len(pk) = harness.method - 1
        /\ harness.pc = "testInstall" => Len(hs) = harness.method - 1

\* The package install succeeded at its second strategy after a timeout of
\* the first, all three harness strategies failed, and the import test ran.
C20_Witness ==
  /\ harness.definition = "current"
  /\ harness.pc = "returned"
  /\ Len(harness.log) = 6
  /\ harness.log[1].outcome = "timeout"
  /\ harness.log[2] = Exec("package", installMethods[2], "ok")
  /\ harness.log[5] = Exec("harness", testInstallMethods[3], "fail")
  /\ harness.log[6] = Exec("harness", "node test.mjs", "ok")
  /\ harness.result = "true"


\* --------------------------------------------------------------- ledger

\* votes[version][revision], or the initial structure when absent.
VotesIn(file, k) ==
  LET data == ReadJson(file)
  IN  IF HasKey(data, k) THEN data[k] ELSE EmptyVotes

VotesOf(k) == VotesIn(votes, k)

\* integrityData[version][revision].integrity, None when absent.
SnapshotIn(file, k) ==
  LET data == ReadJson(file)
  IN  IF HasKey(data, k) THEN data[k].integrity ELSE None

SnapshotOf(k) == SnapshotIn(integrity, k)

\* integrity-meter.mjs vote <package> <version> <revision> <vote> [description]
\* A vote other than up, down or neutral exits before any file is read.
Vote ==
  /\ opsDone < MaxOps
  /\ opsDone' = opsDone + 1
  /\ \E version \in BaseVersions, revision \in VoteRevisions,
        vote \in VoteDirections \cup {"sideways"}, description \in {""} :
       IF vote \in VoteDirections
       THEN LET newVotes == VotesData(ReadJson(votes), version, revision, vote, description)
            IN  /\ votes' = Some(newVotes)
                /\ integrity' = MeterUpdateIntegrityData(integrity, version, revision,
                                   newVotes[<<version, revision>>])
                /\ lastOp' = [op |-> "vote", version |-> version, revision |-> revision,
                              vote |-> vote]
                /\ clock' = clock + 1
       ELSE /\ lastOp' = [op |-> "rejected", version |-> None, revision |-> None,
                          vote |-> vote]
            /\ UNCHANGED <<votes, integrity, clock>>
  /\ UNCHANGED <<pipeVars, scoreVars, syncVars, unitVars>>

OutcomeStatuses == {"prepared", "skipped", "published"}

\* The ledger step of a pipeline run for (baseVersion, revision):
\* DepUp.updateIntegrityData with the status the run computed.
RecordOutcomeCall ==
  /\ opsDone < MaxOps
  /\ opsDone' = opsDone + 1
  /\ \E baseVersion \in BaseVersions, revision \in VoteRevisions, status \in OutcomeStatuses :
       /\ integrity' = DepUpUpdateIntegrityData(integrity, baseVersion, revision,
                          ProduceVersion(VersionText(baseVersion), revision), status)
       /\ lastOp' = [op |-> "outcome", version |-> baseVersion, revision |-> revision,
                     vote |-> status]
  /\ clock' = clock + 1
  /\ UNCHANGED votes
  /\ UNCHANGED <<pipeVars, scoreVars, syncVars, unitVars>>

NextLedger == Vote \/ RecordOutcomeCall

SpecLedger == Init /\ [][NextLedger]_vars

\* The tally handed to IntegrityMeter.updateIntegrityData: any counts a
\* votes.json can hold.
Tallies == [up : 0..MaxCount, down : 0..MaxCount, neutral : 0..MaxCount]

InitTally ==
  /\ InitFiles /\ InitPipeline /\ InitLedger /\ InitSync /\ InitUnit
  /\ tally \in Tallies
  /\ scored = FALSE

ScoreKey == <<(<<1, 0, 0>>), 0>>

\* updateIntegrityData(packageDir, version, revision, voteData)
ComputeSnapshot ==
  /\ ~scored
  /\ scored' = TRUE
  /\ integrity' = MeterUpdateIntegrityData(integrity, ScoreKey[1], ScoreKey[2], tally)
  /\ UNCHANGED <<tally, votes, clock, opsDone, lastOp, pipeVars, syncVars, unitVars>>

SpecScore == InitTally /\ [][ComputeSnapshot]_vars

\* ------------------------------------------------------ ledger properties

\* C8: the stored score is the integer nearest to 100 * (up - down) / total
\* (a half rounds up, as Math.round does) when total > 0, and 0 when total = 0;
\* (10,0,0) gives 100, (8,2,0) 60, (5,5,0) 0, (2,8,0) -60 and (0,0,0) 0.
C8_ScoreIsRoundedRatio ==
  scored =>
    LET s == SnapshotOf(ScoreKey)[1].score
        t == tally.up + tally.down + tally.neutral
        d == tally.up - tally.down
        Is(u, dn, n) == tally.up = u /\ tally.down = dn /\ tally.neutral = n
    IN  /\ t = 0 => s = 0
        /\ t > 0 => 200 * d - t < 2 * t * s /\ 2 * t * s <= 200 * d + t
        /\ Is(10, 0, 0) => s = 100
        /\ Is(8, 2, 0) => s = 60
        /\ Is(5, 5, 0) => s = 0
        /\ Is(2, 8, 0) => s = -60
        /\ Is(0, 0, 0) => s = 0

\* The snapshot of the tally (2, 8, 0) was stored with score -60.
C8_Witness ==
  /\ scored
  /\ tally = [up |-> 2, down |-> 8, neutral |-> 0]
  /\ SnapshotOf(ScoreKey)[1].score = -60

IsPrefix(s, t) == Len(s) <= Len(t) /\ \A i \in 1..Len(s) : s[i] = t[i]

VoteKeys == BaseVersions \X VoteRevisions

\* C9: every step keeps each revision's detail list as a prefix of the new
\* one; an accepted vote appends exactly one detail entry, of its own
\* direction, to its revision and adds one to that direction's counter only;
\* no other step and no other revision's entry changes.
C9_VoteHistoryAppendOnly ==
  [][\A k \in VoteKeys :
       LET old == VotesOf(k)
           new == VotesIn(votes', k)
       IN  /\ IsPrefix(old.details, new.details)
           /\ IF lastOp'.op = "vote" /\ opsDone' # opsDone
                 /\ k = <<lastOp'.version, lastOp'.revision>>
              THEN /\ Len(new.details) = Len(old.details) + 1
                   /\ new.details[Len(new.details)].vote = lastOp'.vote
                   /\ \A dir \in VoteDirections :
                        new[dir] = old[dir] + (IF dir = lastOp'.vote THEN 1 ELSE 0)
              ELSE new = old]_vars

\* One revision holds two votes of different directions.
C9_Witness ==
  \E k \in VoteKeys :
    /\ Len(VotesOf(k).details) = 2
    /\ VotesOf(k).details[1].vote # VotesOf(k).details[2].vote

\* C10: recording a pipeline outcome for a revision leaves the revision's
\* vote counts and its stored integrity snapshot as they were.
C10_OutcomeKeepsVoteScore ==
  [][lastOp'.op = "outcome" /\ opsDone' # opsDone =>
       LET k == <<lastOp'.version, lastOp'.revision>>
       IN  /\ VotesIn(votes', k) = VotesIn(votes, k)
           /\ SnapshotIn(integrity', k) = SnapshotIn(integrity, k)]_vars


\* C11: recording the outcome of the revision (b, i) in integrity.json keeps
\* the entry of every other (base version, index) as it was, adds or replaces
\* only the entry of (b, i), and creates the file with that one entry when it
\* was absent; no ledger write removes an entry.
C11_OutcomeWriteMerges ==
  [][LET old == ReadJson(integrity)
         new == ReadJson(integrity')
     IN  /\ DOMAIN old \subseteq DOMAIN new
         /\ lastOp'.op = "outcome" /\ opsDone' # opsDone =>
              LET k == <<lastOp'.version, lastOp'.revision>>
              IN  /\ integrity' # None
                  /\ DOMAIN new = (DOMAIN old) \cup {k}
                  /\ \A x \in (DOMAIN old) \ {k} : new[x] = old[x]
                  /\ new[k].outcome # None
                  /\ new[k].outcome[1].status = lastOp'.vote
                  /\ integrity = None => DOMAIN new = {k}]_vars

\* Three outcomes were recorded for three revisions and all three entries
\* are in the file.
C11_Witness ==
  /\ lastOp.op = "outcome"
  /\ Cardinality(DOMAIN ReadJson(integrity)) = 3
  /\ \A k \in DOMAIN ReadJson(integrity) : ReadJson(integrity)[k].outcome # None

\* C25: whatever votes have been cast, every stored integrity snapshot has
\* a score in -100..100 and a total that is the sum of its three counters
\* and is not negative.
C25_StoredScoreBounded ==
  \A k \in VoteKeys :
    SnapshotOf(k) # None =>
      LET snapshot == SnapshotOf(k)[1]
      IN  /\ snapshot.score \in -100..100
          /\ snapshot.totalVotes
               = snapshot.upVotes + snapshot.downVotes + snapshot.neutralVotes
          /\ snapshot.totalVotes >= 0

\* Three votes on one revision, two of them down: the stored score is -67.
C25_Witness ==
  /\ lastOp.op = "vote"
  /\ \E k \in VoteKeys :
       /\ SnapshotOf(k) # None
       /\ SnapshotOf(k)[1].totalVotes = 3
       /\ SnapshotOf(k)[1].downVotes = 2
       /\ SnapshotOf(k)[1].score = -67

\* The detail entries of a revision with the given direction.
DetailsWith(voteData, dir) ==
  Cardinality({i \in DOMAIN voteData.details : voteData.details[i].vote = dir})

\* C31: in the vote file every revision's counters count its detail
\* entries, each direction its own and the three together all of them; a
\* vote of any other direction changes neither the vote file nor the
\* integrity file.
C31_CountersMatchDetails ==
  /\ [](\A k \in VoteKeys :
          /\ \A dir \in VoteDirections : VotesOf(k)[dir] = DetailsWith(VotesOf(k), dir)
          /\ VotesOf(k).up + VotesOf(k).down + VotesOf(k).neutral
               = Len(VotesOf(k).details))
  /\ [][lastOp'.op = "rejected" /\ opsDone' # opsDone =>
          votes' = votes /\ integrity' = integrity]_vars

\* A vote was rejected while a revision holds one up and one down vote.
C31_Witness ==
  /\ lastOp.op = "rejected"
  /\ \E k \in VoteKeys :
       /\ VotesOf(k).up = 1
       /\ VotesOf(k).down = 1
       /\ Len(VotesOf(k).details) = 2

\* The entry of a revision in integrity.json, EmptyEntry when absent.
EntryIn(file, k) ==
  LET data == ReadJson(file)
  IN  IF HasKey(data, k) THEN data[k] ELSE EmptyEntry

\* C32: an accepted vote on a revision leaves that revision's recorded
\* outcome (version, timestamp, status) as it was, and leaves the votes, the
\* snapshot and the outcome of every other revision of every base version
\* as they were.
C32_VoteTouchesOwnRevisionOnly ==
  [][lastOp'.op = "vote" /\ opsDone' # opsDone =>
       LET k == <<lastOp'.version, lastOp'.revision>>
       IN  /\ EntryIn(integrity', k).outcome = EntryIn(integrity, k).outcome
           /\ \A x \in VoteKeys \ {k} :
                /\ VotesIn(votes', x) = VotesIn(votes, x)
                /\ EntryIn(integrity', x) = EntryIn(integrity, x)
                /\ HasKey(ReadJson(integrity'), x) <=> HasKey(ReadJson(integrity), x)
                /\ HasKey(ReadJson(votes'), x) <=> HasKey(ReadJson(votes), x)]_vars

\* A vote was cast on a revision whose outcome is recorded, while another
\* revision holds a vote of its own.
C32_Witness ==
  /\ lastOp.op = "vote"
  /\ LET k == <<lastOp.version, lastOp.revision>>
     IN  /\ EntryIn(integrity, k).outcome # None
         /\ EntryIn(integrity, k).integrity # None
         /\ \E x \in VoteKeys \ {k} : Len(VotesOf(x).details) = 1

\* ------------------------------------------- ledger writers, interleaved

\* Two ledger writers run as separate processes on one package's files. Each
\* reads a file (await fs.readFile), changes its own key in memory and writes
\* the whole file back (await fs.writeFile); nothing orders the reads and
\* writes of the two processes. The two calls name different revisions.
WriterKey(p) == <<writer[p].version, writer[p].revision>>

OtherKeys(p) == {WriterKey(q) : q \in {q \in Procs : q # p /\ writer[q].pc # "idle"}}

\* integrity-meter.mjs vote ...: the arguments are accepted.
CallVote(p) ==
  /\ writer[p].pc = "idle"
  /\ \E version \in BaseVersions, revision \in VoteRevisions, vote \in VoteDirections :
       /\ <<version, revision>> \notin OtherKeys(p)
       /\ writer' = [writer EXCEPT ![p] =
            [IdleWriter EXCEPT !.pc = "loadVotes", !.op = "vote", !.version = version,
                               !.revision = revision, !.vote = vote]]
  /\ UNCHANGED <<pipeVars, ledgerVars, scoreVars, syncVars, bumpCall, harness, restVars>>

\* readFile(votesFile), JSON.parse and the vote added in memory.
LoadVotes(p) ==
  /\ writer[p].pc = "loadVotes"
  /\ writer' = [writer EXCEPT
       ![p].pc = "saveVotes",
       ![p].votesData = VotesData(ReadJson(votes), writer[p].version,
                                  writer[p].revision, writer[p].vote, "")]
  /\ clock' = clock + 1
  /\ UNCHANGED <<integrity, votes, opsDone, lastOp>>
  /\ UNCHANGED <<pipeVars, scoreVars, syncVars, bumpCall, harness, restVars>>

\* writeFile(votesFile, JSON.stringify(votes))
SaveVotes(p) ==
  /\ writer[p].pc = "saveVotes"
  /\ votes' = Some(writer[p].votesData)
  /\ writer' = [writer EXCEPT ![p].pc = "loadIntegrity"]
  /\ UNCHANGED <<integrity, clock, opsDone, lastOp>>
  /\ UNCHANGED <<pipeVars, scoreVars, syncVars, bumpCall, harness, restVars>>

\* The ledger step of a pipeline run: DepUp.updateIntegrityData is called.
CallRecordOutcome(p) ==
  /\ writer[p].pc = "idle"
  /\ \E baseVersion \in BaseVersions, revision \in VoteRevisions, status \in OutcomeStatuses :
       /\ <<baseVersion, revision>> \notin OtherKeys(p)
       /\ writer' = [writer EXCEPT ![p] =
            [IdleWriter EXCEPT !.pc = "loadIntegrity", !.op = "outcome",
                               !.version = baseVersion, !.revision = revision,
                               !.vote = status]]
  /\ UNCHANGED <<pipeVars, ledgerVars, scoreVars, syncVars, bumpCall, harness, restVars>>

\* readFile(integrityFile), JSON.parse and the caller's key assigned in
\* memory: by IntegrityMeter.updateIntegrityData after a vote, by
\* DepUp.updateIntegrityData for an outcome.
LoadIntegrity(p) ==
  /\ writer[p].pc = "loadIntegrity"
  /\ writer' = [writer EXCEPT
       ![p].pc = "saveIntegrity",
       ![p].integrityData =
          IF writer[p].op = "vote"
          THEN MeterIntegrityData(ReadJson(integrity), writer[p].version,
                                  writer[p].revision, writer[p].votesData[WriterKey(p)])
          ELSE DepUpIntegrityData(ReadJson(integrity), writer[p].version,
                                  writer[p].revision,
                                  ProduceVersion(VersionText(writer[p].version), writer[p].revision),
                                  writer[p].vote)]
  /\ UNCHANGED <<pipeVars, ledgerVars, scoreVars, syncVars, bumpCall, harness, restVars>>

\* writeFile(integrityFile, JSON.stringify(integrityData))
SaveIntegrity(p) ==
  /\ writer[p].pc = "saveIntegrity"
  /\ integrity' = Some(writer[p].integrityData)
  /\ writer' = [writer EXCEPT ![p].pc = "done"]
  /\ UNCHANGED <<votes, clock, opsDone, lastOp>>
  /\ UNCHANGED <<pipeVars, scoreVars, syncVars, bumpCall, harness, restVars>>

NextLedgerRace ==
  \E p \in Procs :
    \/ CallVote(p)
    \/ LoadVotes(p)
    \/ SaveVotes(p)
    \/ CallRecordOutcome(p)
    \/ LoadIntegrity(p)
    \/ SaveIntegrity(p)

SpecLedgerRace == Init /\ [][NextLedgerRace]_vars

\* The files hold what the finished call of p wrote for its revision.
EffectPresent(p) ==
  LET k == WriterKey(p)
  IN  IF writer[p].op = "vote"
      THEN /\ VotesOf(k)[writer[p].vote] = 1
           /\ Len(VotesOf(k).details) = 1
           /\ SnapshotOf(k) # None
           /\ SnapshotOf(k)[1].totalVotes = 1
      ELSE StatusOf(k) = writer[p].vote

\* C12: when two ledger writes for two different revisions of one package,
\* at least one of them a vote, have interleaved and both have finished,
\* votes.json and integrity.json hold the effect of both.
C12_NoLostUpdate ==
  (/\ \A p \in Procs : writer[p].pc = "done"
   /\ \E p \in Procs : writer[p].op = "vote")
  => \A p \in Procs : EffectPresent(p)

\* ------------------------------------------------------ sync orchestrator

\* this.maxPackagesPerRun
maxPackagesPerRun == 50

\* this.concurrentPackages is 5; the loop is also run with smaller worker
\* bounds, which split the model's few packages into several groups.
WorkerBounds == {1, 2, 5}

\* An entry of packages/: a name (unique within the directory; packages are
\* numbered, 0 and -1 name the two entries that are no packages), whether it
\* is a directory, whether its name starts with a dot, and the base versions
\* recorded in its integrity.json (None when the file is absent or unreadable).
DirEntry(name, isDirectory, hidden, versions) ==
  [name |-> name, isDirectory |-> isDirectory, hidden |-> hidden, versions |-> versions]

\* The listing with n package directories: a dot directory, a plain file,
\* and packages 1..n, of which odd ones record one base version and even ones
\* two; the package at position `bare` (if any) has no integrity.json.
Listing(n, bare) ==
  <<DirEntry(0, TRUE, TRUE, None), DirEntry(-1, FALSE, FALSE, None)>> \o
  [i \in 1..n |->
     DirEntry(i, TRUE, FALSE,
              IF i = bare THEN None
              ELSE IF i % 2 = 1 THEN Some({<<1, 0, 0>>}) ELSE Some(BaseVersions))]

\* The UTF-16 code unit of a character of a version or directory name.
CodeUnit(c) ==
  CASE c = "-" -> 45
    [] c = "." -> 46
    [] OTHER -> 48 + (CHOOSE d \in 0..9 : DigitChars[d + 1] = c)

\* The default comparison of Array.prototype.sort: strings by code units.
RECURSIVE StringLess(_, _)
StringLess(a, b) ==
  IF b = <<>> THEN FALSE
  ELSE IF a = <<>> THEN TRUE
  ELSE IF Head(a) = Head(b) THEN StringLess(Tail(a), Tail(b))
  ELSE CodeUnit(Head(a)) < CodeUnit(Head(b))

\* versions.sort().pop(): the last of the keys in string order.
LastSorted(versions) ==
  CHOOSE v \in versions :
    \A w \in versions : w = v \/ StringLess(VersionText(w), VersionText(v))

\* Whether getExistingPackages pushes a package for the entry.
IsPackage(entry) ==
  /\ entry.isDirectory
  /\ ~entry.hidden
  /\ entry.versions # None
  /\ entry.versions[1] # {}

RECURSIVE MutOnePerVersion(_)
MutOnePerVersion(entries) ==
  IF entries = <<>> THEN <<>>
  ELSE LET entry == Head(entries)
           rest == MutOnePerVersion(Tail(entries))
       IN  IF IsPackage(entry)
           THEN (IF Cardinality(entry.versions[1]) > 1
                 THEN <<[name |-> entry.name,
                         version |-> CHOOSE v \in entry.versions[1] : v # LastSorted(entry.versions[1])]>>
                 ELSE <<>>)
                \o <<[name |-> entry.name, version |-> LastSorted(entry.versions[1])]>> \o rest
           ELSE rest

\* getExistingPackages: one {name, version} per package directory that has
\* integrity data, in directory order.
RECURSIVE GetExistingPackages(_)
GetExistingPackages(entries) ==
  IF entries = <<>> THEN <<>>
  ELSE LET entry == Head(entries)
           rest == GetExistingPackages(Tail(entries))
       IN  IF IsPackage(entry)
           THEN <<[name |-> entry.name, version |-> LastSorted(entry.versions[1])]>> \o rest
           ELSE rest

\* existingPackages.slice(0, this.maxPackagesPerRun)
Slice(seq, from, to) ==
  [i \in 1..((IF to < Len(seq) THEN to ELSE Len(seq)) - from) |-> seq[from + i]]

MutBatchIsTheRest(i, n) == (i + 1)..n

\* The positions of packagesToProcess.slice(i, i + this.concurrentPackages).
BatchPositions(i, n) ==
  (i + 1)..(IF i + concurrentPackages < n THEN i + concurrentPackages ELSE n)

\* What syncPackage meets: the registry request rejects; a newer upstream
\* version and the child pipeline exits 0 or fails; the same version and the
\* dependencies need an update (child exits 0 or fails) or need none.
SyncOutcomes ==
  {"registry_error", "version_ok", "version_fail", "deps_ok", "deps_fail", "up_to_date"}

\* The outcomes in which syncPackage's catch block runs.
FailingOutcomes == {"registry_error", "version_fail", "deps_fail"}

\* What syncPackage returns.
Synced(outcome) == outcome \in {"version_ok", "deps_ok"}

Terminal == {"Succeeded", "Failed"}

MutSettlesOnFirstFailure(states) ==
  \/ \A st \in states : st \in Terminal
  \/ \E st \in states : st = "Failed"

\* Promise.allSettled resolves when every promise of the batch has settled,
\* whatever its status.
AllSettled(states) == \A st \in states : st \in Terminal

PendingItem == [state |-> "Pending", outcome |-> "", synced |-> FALSE, success |-> FALSE]

InitSyncRun ==
  /\ InitFiles /\ InitPipeline /\ InitLedger /\ InitScore /\ InitUnit
  /\ \E n \in 0..MaxPackages, bare \in 0..MaxPackages :
       bare <= n /\ packagesDir = Listing(n, bare)
  /\ concurrentPackages \in WorkerBounds
  /\ worklist = <<>>
  /\ batchStart = 0
  /\ item = <<>>
  /\ syncedPackages = <<>>
  /\ syncPc = "idle"
  /\ sleeps = 0

\* main up to the loop: getExistingPackages and the slice.
StartSync ==
  /\ syncPc = "idle"
  /\ LET packagesToProcess == Slice(GetExistingPackages(packagesDir), 0, maxPackagesPerRun)
     IN  /\ worklist' = packagesToProcess
         /\ item' = [k \in 1..Len(packagesToProcess) |-> PendingItem]
         /\ syncPc' = IF Len(packagesToProcess) > 0 THEN "loop" ELSE "done"
  /\ batchStart' = 0
  /\ UNCHANGED <<sleeps, packagesDir, concurrentPackages, syncedPackages>>
  /\ UNCHANGED <<pipeVars, ledgerVars, scoreVars, unitVars>>

\* batch.map(async ...): every item of the batch starts, up to its registry
\* request.
StartBatch ==
  /\ syncPc = "loop"
  /\ item' = [k \in DOMAIN item |->
                IF k \in BatchPositions(batchStart, Len(worklist))
                THEN [item[k] EXCEPT !.state = "Running"]
                ELSE item[k]]
  /\ syncPc' = "await"
  /\ UNCHANGED <<sleeps, packagesDir, concurrentPackages, worklist, batchStart, syncedPackages>>
  /\ UNCHANGED <<pipeVars, ledgerVars, scoreVars, unitVars>>

\* One item's syncPackage runs to its end: errors are caught inside it, and
\* the child pipeline, run with execSync, lets no other item step meanwhile.
ItemCompletes(k) ==
  /\ syncPc = "await"
  /\ item[k].state = "Running"
  /\ \E outcome \in SyncOutcomes :
       item' = [item EXCEPT ![k] =
                  [state |-> IF outcome \in FailingOutcomes THEN "Failed" ELSE "Succeeded",
                   outcome |-> outcome,
                   synced |-> Synced(outcome),
                   success |-> TRUE]]
  /\ UNCHANGED <<sleeps, packagesDir, concurrentPackages, worklist, batchStart, syncedPackages, syncPc>>
  /\ UNCHANGED <<pipeVars, ledgerVars, scoreVars, unitVars>>

\* The names of the batch's results with synced set, in batch order.
RECURSIVE Collected(_, _)
Collected(from, to) ==
  IF from > to THEN <<>>
  ELSE (IF item[from].state \in Terminal /\ item[from].synced
        THEN <<worklist[from].name>> ELSE <<>>) \o Collected(from + 1, to)

MutSleepsAfterEveryBatch(i, n) == i < n

\* The condition of the pacing delay after the batch that starts at offset i
\* of n packages.
SleepsAfterBatch(i, n) == i + concurrentPackages < n

\* The await of Promise.allSettled returns: the synced names are collected,
\* and the pacing delay follows unless this was the last batch.
EndBatch ==
  /\ syncPc = "await"
  /\ LET batch == BatchPositions(batchStart, Len(worklist))
     IN  /\ AllSettled({item[k].state : k \in batch})
         /\ syncedPackages' = syncedPackages \o Collected(batchStart + 1, Max(batch))
  /\ syncPc' = IF SleepsAfterBatch(batchStart, Len(worklist)) THEN "sleep" ELSE "done"
  /\ batchStart' = batchStart + concurrentPackages
  /\ UNCHANGED <<sleeps, packagesDir, concurrentPackages, worklist, item>>
  /\ UNCHANGED <<pipeVars, ledgerVars, scoreVars, unitVars>>

\* await this.sleep(this.rateLimitDelay) returns.
Sleep ==
  /\ syncPc = "sleep"
  /\ syncPc' = "loop"
  /\ sleeps' = sleeps + 1
  /\ UNCHANGED <<packagesDir, concurrentPackages, worklist, batchStart, item, syncedPackages>>
  /\ UNCHANGED <<pipeVars, ledgerVars, scoreVars, unitVars>>

NextSync ==
  \/ StartSync
  \/ StartBatch
  \/ \E k \in DOMAIN item : ItemCompletes(k)
  \/ EndBatch
  \/ Sleep

SpecSync == InitSyncRun /\ [][NextSync]_vars

\* The same run with syncPackage in two steps: the registry request, which
\* carries timeout: 5000 and so ends, and the child pipeline, which updatePackage
\* and updateDependencies start with execSync(command, {stdio, cwd, env}),
\* without a timeout.
ChildOutcomes == {"version_ok", "version_fail", "deps_ok", "deps_fail"}

\* fetch.json(`/${name}`, {timeout: 5000}) resolves or rejects, and the
\* dependency check with it: the item ends here, or execSync starts a child.
RegistryReplies(k) ==
  /\ k \in DOMAIN item
  /\ syncPc = "await"
  /\ item[k].state = "Running"
  /\ item[k].outcome = ""
  /\ \E reply \in {"registry_error", "up_to_date", "child_version", "child_deps"} :
       item' = [item EXCEPT ![k] =
                  IF reply = "registry_error"
                  THEN [state |-> "Failed", outcome |-> reply, synced |-> FALSE,
                        success |-> TRUE]
                  ELSE IF reply = "up_to_date"
                  THEN [state |-> "Succeeded", outcome |-> reply, synced |-> FALSE,
                        success |-> TRUE]
                  ELSE [item[k] EXCEPT !.outcome = reply]]
  /\ UNCHANGED <<sleeps, packagesDir, concurrentPackages, worklist, batchStart, syncedPackages, syncPc>>
  /\ UNCHANGED <<pipeVars, ledgerVars, scoreVars, unitVars>>

\* The child pipeline exits and execSync returns or throws.
ChildExits(k) ==
  /\ k \in DOMAIN item
  /\ syncPc = "await"
  /\ item[k].state = "Running"
  /\ item[k].outcome \in {"child_version", "child_deps"}
  /\ \E outcome \in ChildOutcomes :
       /\ (item[k].outcome = "child_version") <=> (outcome \in {"version_ok", "version_fail"})
       /\ item' = [item EXCEPT ![k] =
                     [state |-> IF outcome \in FailingOutcomes THEN "Failed" ELSE "Succeeded",
                      outcome |-> outcome,
                      synced |-> Synced(outcome),
                      success |-> TRUE]]
  /\ UNCHANGED <<sleeps, packagesDir, concurrentPackages, worklist, batchStart, syncedPackages, syncPc>>
  /\ UNCHANGED <<pipeVars, ledgerVars, scoreVars, unitVars>>

NextSyncSteps ==
  \/ StartSync
  \/ StartBatch
  \/ \E k \in DOMAIN item : RegistryReplies(k)
  \/ \E k \in DOMAIN item : ChildExits(k)
  \/ EndBatch
  \/ Sleep

\* main's own steps and every call that carries a timeout are taken when
\* they can be; nothing in the syncer makes a child pipeline return.
SyncFairness ==
  /\ WF_vars(StartSync \/ StartBatch \/ EndBatch \/ Sleep)
  /\ \A k \in 1..MaxPackages : WF_vars(RegistryReplies(k))

SpecSyncLive == InitSyncRun /\ [][NextSyncSteps]_vars /\ SyncFairness

\* -------------------------------------------------------- sync properties

Running == {k \in DOMAIN item : item[k].state = "Running"}

\* C5: at no instant are more than concurrentPackages items Running.
C5_AtMostWRunning == Cardinality(Running) <= concurrentPackages

\* With a worker bound of 2 and three packages, two run while one waits.
C5_Witness ==
  /\ concurrentPackages = 2
  /\ Cardinality(Running) = 2
  /\ \E k \in DOMAIN item : item[k].state = "Pending"

\* The names main would log as synced if every item were judged on its own
\* outcome alone.
RECURSIVE SyncedAlone(_)
SyncedAlone(k) ==
  IF k > Len(worklist) THEN <<>>
  ELSE (IF Synced(item[k].outcome) THEN <<worklist[k].name>> ELSE <<>>) \o SyncedAlone(k + 1)

\* C6: a failing item changes no other item's end: when main is done every
\* item of every group has run to Succeeded or Failed, each is Failed exactly
\* when its own sync met an error, and the synced names are those of the
\* items whose own sync reported an update.
C6_FailuresIsolated ==
  /\ \A k \in DOMAIN item :
       item[k].state \in Terminal =>
         (item[k].state = "Failed" <=> item[k].outcome \in FailingOutcomes)
  /\ syncPc = "done" =>
       /\ \A k \in DOMAIN item : item[k].state \in Terminal
       /\ syncedPackages = SyncedAlone(1)

\* Main is done; the first item failed, a sibling of its group and an item
\* of the next group synced.
C6_Witness ==
  /\ syncPc = "done"
  /\ concurrentPackages = 2
  /\ Len(worklist) = 3
  /\ item[1].state = "Failed"
  /\ item[2].state = "Succeeded" /\ item[2].synced
  /\ item[3].state = "Succeeded" /\ item[3].synced

SameGroup(i, j) == (i - 1) \div concurrentPackages = (j - 1) \div concurrentPackages

\* C7: the items of every concurrent group refer to pairwise distinct
\* packages, so no two Running items are runs for the same package.
C7_GroupsHoldDistinctPackages ==
  /\ \A i, j \in DOMAIN worklist :
       i # j /\ SameGroup(i, j) => worklist[i].name # worklist[j].name
  /\ \A i, j \in Running : i # j => worklist[i].name # worklist[j].name

\* Two packages run in the same group, one of them with two recorded base
\* versions.
C7_Witness ==
  /\ Cardinality(Running) = 2
  /\ \E e \in {packagesDir[i] : i \in DOMAIN packagesDir} :
       /\ e.versions # None
       /\ Cardinality(e.versions[1]) = 2
       /\ \E k \in Running : worklist[k].name = e.name

GroupOf(k) == (k - 1) \div concurrentPackages

NumGroups == (Len(worklist) + concurrentPackages - 1) \div concurrentPackages

\* C23: the pacing delay separates groups and nothing else. An item that has
\* left Pending has seen exactly one delay per earlier group, all of whose
\* items are terminal; the items of one group leave Pending together, with no
\* delay between them; a delay is only ever awaited while some item is still
\* Pending, so a finished run of n groups has slept n - 1 times.
C23_DelayBetweenGroupsOnly ==
  /\ \A k \in DOMAIN item :
       item[k].state # "Pending" =>
         /\ sleeps >= GroupOf(k)
         /\ item[k].state = "Running" => sleeps = GroupOf(k)
         /\ \A j \in DOMAIN item :
              GroupOf(j) < GroupOf(k) => item[j].state \in Terminal
  /\ \A i, j \in DOMAIN item :
       SameGroup(i, j) => (item[i].state = "Pending" <=> item[j].state = "Pending")
  /\ syncPc = "sleep" => \E k \in DOMAIN item : item[k].state = "Pending"
  /\ syncPc = "done" => sleeps = (IF NumGroups = 0 THEN 0 ELSE NumGroups - 1)

\* Three packages one at a time: the run ends after two delays.
C23_Witness ==
  /\ syncPc = "done"
  /\ concurrentPackages = 1
  /\ Len(worklist) = 3
  /\ sleeps = 2

\* C22: every sync run ends, with each scheduled item Succeeded or Failed,
\* also when a registry request or a child pipeline never returns of its
\* own accord.
C22_SyncRunTerminates ==
  <>(syncPc = "done" /\ \A k \in DOMAIN item : item[k].state \in Terminal)

\* ------------------------------------------- single calls, on their own

\* Nothing but the call under study is in progress.
InitQuiet ==
  /\ InitFiles /\ InitPipeline /\ InitLedger /\ InitScore /\ InitSync
  /\ writer = [p \in Procs |-> IdleWriter]
  /\ bumpCall = IdleBump
  /\ harness = IdleHarness

CallFrame ==
  UNCHANGED <<pipeVars, ledgerVars, scoreVars, syncVars, writer, bumpCall,
              harness, secure, workflow>>

\* ------------------------------------------------- revision allocation

\* Names are sequences of characters.
Digits == {"0", "1", "2", "3", "4", "5", "6", "7", "8", "9"}

DigitValue(c) ==
  CASE c = "0" -> 0 [] c = "1" -> 1 [] c = "2" -> 2 [] c = "3" -> 3
    [] c = "4" -> 4 [] c = "5" -> 5 [] c = "6" -> 6 [] c = "7" -> 7
    [] c = "8" -> 8 [] c = "9" -> 9

RevPrefix == <<"r", "e", "v", "-">>

\* String.prototype.startsWith.
StartsWith(name, prefix) ==
  /\ Len(name) >= Len(prefix)
  /\ SubSeq(name, 1, Len(prefix)) = prefix

\* String.prototype.replace(pattern, '') with a string pattern: the first
\* occurrence is removed.
RECURSIVE ReplaceFirst(_, _)
ReplaceFirst(name, pattern) ==
  IF Len(name) < Len(pattern) THEN name
  ELSE IF StartsWith(name, pattern)
       THEN SubSeq(name, Len(pattern) + 1, Len(name))
       ELSE <<Head(name)>> \o ReplaceFirst(Tail(name), pattern)

RECURSIVE SkipWhiteSpace(_)
SkipWhiteSpace(str) ==
  IF str # <<>> /\ Head(str) = " " THEN SkipWhiteSpace(Tail(str)) ELSE str

RECURSIVE LeadingDigits(_)
LeadingDigits(str) ==
  IF str # <<>> /\ Head(str) \in Digits
  THEN <<Head(str)>> \o LeadingDigits(Tail(str))
  ELSE <<>>

RECURSIVE DecimalValue(_)
DecimalValue(digits) ==
  IF digits = <<>> THEN 0
  ELSE 10 * DecimalValue(SubSeq(digits, 1, Len(digits) - 1))
       + DigitValue(digits[Len(digits)])

\* Number.parseInt(str, 10): leading white space is skipped, a sign is
\* taken, then the longest run of digits; what follows is dropped. None
\* stands for NaN.
ParseInt(str) ==
  LET trimmed == SkipWhiteSpace(str)
      signed == trimmed # <<>> /\ Head(trimmed) \in {"+", "-"}
      digits == LeadingDigits(IF signed THEN Tail(trimmed) ELSE trimmed)
  IN  IF digits = <<>> THEN None
      ELSE IF signed /\ Head(trimmed) = "-"
           THEN Some(0 - DecimalValue(digits))
           ELSE Some(DecimalValue(digits))

\* entries.filter(...).map(...).filter(...): the parsed numbers of the
\* directories whose name starts with rev-.
Revs(entries) ==
  LET parsed == {ParseInt(ReplaceFirst(entry.name, RevPrefix)) :
                   entry \in {e \in entries :
                                e.isDirectory /\ StartsWith(e.name, RevPrefix)}}
  IN  {n[1] : n \in {x \in parsed : x # None}}

\* The characters a name may continue with, and the names of the entries.
NameChars == {"1", "2", "a", "-", " "}

NameRests == UNION {[1..n -> NameChars] : n \in 0..2}

EntryNames ==
  {start \o rest : start \in {RevPrefix, <<"r", "e", "v">>, <<>>}, rest \in NameRests}

DirEntries == [name : EntryNames, isDirectory : BOOLEAN]

\* What readdir may return: at most two entries, no name twice.
Listings ==
  {{}} \cup {{e} : e \in DirEntries}
       \cup {pair \in {{e, f} : e, f \in DirEntries} :
               \A e, f \in pair : e.name = f.name => e = f}

InitAlloc ==
  /\ InitQuiet
  /\ secure = IdleSecure
  /\ workflow = NoWorkflow
  /\ \E entries \in Listings : call = [fn |-> "readdir", entries |-> entries]

\* The revision number determined from the listing of the version directory.
DetermineRevision ==
  /\ call.fn = "readdir"
  /\ call' = [fn |-> "revision", entries |-> call.entries,
              revision |-> NextRevision(Revs(call.entries))]
  /\ CallFrame

SpecAlloc == InitAlloc /\ [][DetermineRevision]_vars

\* The part of a name after rev- is a well-formed non-negative integer.
WellFormed(rest) == rest # <<>> /\ \A i \in 1..Len(rest) : rest[i] \in Digits

\* The k of the directories named rev-k.
NamedRevisions(entries) ==
  {DecimalValue(SubSeq(e.name, 5, Len(e.name))) :
     e \in {f \in entries : /\ f.isDirectory
                            /\ StartsWith(f.name, RevPrefix)
                            /\ WellFormed(SubSeq(f.name, 5, Len(f.name)))}}

\* C24: the allocated index is one more than the largest k of a directory
\* named rev-k, and 0 when there is none; every other entry is ignored.
C24_AllocatedIndexIsMaxPlusOne ==
  call.fn = "revision" =>
    call.revision = (IF NamedRevisions(call.entries) = {} THEN 0
                     ELSE Max(NamedRevisions(call.entries)) + 1)

\* --------------------------------------------------- status buckets

\* The scores an integrity snapshot can hold.
Scores == -100..100

MutGetStatusEmojiStrict(score) ==
  IF score > 80 THEN "green"
  ELSE IF score >= 60 THEN "yellow"
  ELSE IF score >= 40 THEN "orange"
  ELSE "red"

\* IntegrityMeter.getStatusEmoji; the four circles are named by colour.
GetStatusEmoji(score) ==
  IF score >= 80 THEN "green"
  ELSE IF score >= 60 THEN "yellow"
  ELSE IF score >= 40 THEN "orange"
  ELSE "red"

NoPackagesCounted ==
  [excellentPackages |-> 0, goodPackages |-> 0, fairPackages |-> 0, poorPackages |-> 0]

\* SystemMonitor.getSystemStats for one revision with an integrity snapshot:
\* score = revisionData.integrity.score || 0, then one of four counters.
GetSystemStats(integrityScore) ==
  LET score == IF integrityScore # 0 THEN integrityScore ELSE 0
  IN  IF score >= 80 THEN [NoPackagesCounted EXCEPT !.excellentPackages = @ + 1]
      ELSE IF score >= 60 THEN [NoPackagesCounted EXCEPT !.goodPackages = @ + 1]
      ELSE IF score >= 40 THEN [NoPackagesCounted EXCEPT !.fairPackages = @ + 1]
      ELSE [NoPackagesCounted EXCEPT !.poorPackages = @ + 1]

InitBucket ==
  /\ InitQuiet
  /\ secure = IdleSecure
  /\ workflow = NoWorkflow
  /\ \E score \in Scores : call = [fn |-> "bucket", score |-> score,
                                   emoji |-> None, stats |-> None]

\* The integrity meter picks the status of the score.
MeterStatus ==
  /\ call.fn = "bucket"
  /\ call.emoji = None
  /\ call' = [call EXCEPT !.emoji = Some(GetStatusEmoji(call.score))]
  /\ CallFrame

\* The system monitor counts the score.
MonitorStats ==
  /\ call.fn = "bucket"
  /\ call.stats = None
  /\ call' = [call EXCEPT !.stats = Some(GetSystemStats(call.score))]
  /\ CallFrame

NextBucket == MeterStatus \/ MonitorStats

SpecBucket == InitBucket /\ [][NextBucket]_vars

\* The bucket a status emoji stands for, and the counter of a bucket.
BucketOfEmoji(emoji) ==
  CASE emoji = "green" -> "excellent" [] emoji = "yellow" -> "good"
    [] emoji = "orange" -> "fair" [] emoji = "red" -> "poor"

CounterOfBucket(bucket) ==
  CASE bucket = "excellent" -> "excellentPackages" [] bucket = "good" -> "goodPackages"
    [] bucket = "fair" -> "fairPackages" [] bucket = "poor" -> "poorPackages"

\* C26: a score of 80 or more is excellent, 60..79 good, 40..59 fair and
\* anything below 40 poor; the meter gives every score exactly that bucket,
\* and the monitor counts the score once, in the counter of the same bucket.
C26_BucketsTotalAndAgree ==
  LET stated == IF call.score >= 80 THEN "excellent"
                ELSE IF call.score >= 60 /\ call.score <= 79 THEN "good"
                ELSE IF call.score >= 40 /\ call.score <= 59 THEN "fair"
                ELSE "poor"
  IN  call.fn = "bucket" =>
        /\ call.emoji # None => BucketOfEmoji(call.emoji[1]) = stated
        /\ call.stats # None =>
             \A b \in {"excellent", "good", "fair", "poor"} :
               call.stats[1][CounterOfBucket(b)] = (IF b = stated THEN 1 ELSE 0)

\* The boundary score 80 is excellent for the meter and for the monitor.
C26_Witness ==
  /\ call.fn = "bucket"
  /\ call.score = 80
  /\ call.emoji = Some("green")
  /\ call.stats # None
  /\ call.stats[1].excellentPackages = 1

\* ------------------------------------------------ the produced version

\* Base versions as the registry can report them: releases, a prerelease,
\* and versions that are themselves produced versions.
BaseVersionTexts ==
  LET release == VersionText(<<1, 0, 0>>)
  IN  {release, VersionText(<<1, 1, 0>>), VersionText(<<10, 0, 12>>),
       release \o <<"-", "b", "e", "t", "a", ".", "1">>,
       release \o DepupTag \o <<"0">>,
       release \o DepupTag \o <<"1">>,
       release \o DepupTag \o <<"0">> \o DepupTag \o <<"1">>}

\* Revision numbers: what the allocation can yield, two digits included.
RevisionNumbers == (0 - 1)..12

InitVersion ==
  /\ InitQuiet
  /\ secure = IdleSecure
  /\ workflow = NoWorkflow
  /\ \E baseVersion \in BaseVersionTexts, revision \in RevisionNumbers :
       call = [fn |-> "version", pc |-> "read", baseVersion |-> baseVersion,
               revision |-> revision, packageJson |-> None, manifest |-> None,
               entry |-> None]

\* packageJson.version = `${baseVersion}-depup.${revision}`
SetVersion ==
  /\ call.fn = "version"
  /\ call.pc = "read"
  /\ call' = [call EXCEPT
       !.pc = "set",
       !.packageJson = Some([version |-> ProduceVersion(call.baseVersion, call.revision)])]
  /\ CallFrame

\* fs.writeFile(packageJsonPath, JSON.stringify(packageJson, ...))
WriteManifest ==
  /\ call.fn = "version"
  /\ call.pc = "set"
  /\ call' = [call EXCEPT !.pc = "written", !.manifest = call.packageJson]
  /\ CallFrame

\* updateIntegrityData(packageDirectory, baseVersion, revision,
\* packageJson.version, status)
RecordVersion ==
  /\ call.fn = "version"
  /\ call.pc = "written"
  /\ \E status \in OutcomeStatuses :
       call' = [call EXCEPT
         !.pc = "recorded",
         !.entry = Some(DepUpIntegrityData(<<>>, call.baseVersion, call.revision,
                          call.packageJson[1].version,
                          status)[<<call.baseVersion, call.revision>>])]
  /\ CallFrame

NextVersion == SetVersion \/ WriteManifest \/ RecordVersion

SpecVersion == InitVersion /\ [][NextVersion]_vars

\* The largest position at which pattern occurs in text, 0 when nowhere.
LastIndexOf(text, pattern) ==
  LET at == {i \in 1..Len(text) :
               /\ i + Len(pattern) - 1 <= Len(text)
               /\ SubSeq(text, i, i + Len(pattern) - 1) = pattern}
  IN  IF at = {} THEN 0 ELSE Max(at)

\* A produced version split at its last "-depup.": what precedes it, and
\* the number that follows it.
ParseProduced(text) ==
  LET i == LastIndexOf(text, DepupTag)
  IN  <<SubSeq(text, 1, i - 1), ParseInt(SubSeq(text, i + Len(DepupTag), Len(text)))>>

\* C27: the version set in the manifest is v, "-depup." and i in decimal;
\* the manifest written to disk and the status entry of the revision carry
\* that same string; splitting it at its last "-depup." gives back v and i;
\* and no other pair (v, i) produces it.
C27_ProducedVersionRoundTrips ==
  call.fn = "version" /\ call.packageJson # None =>
    LET version == call.packageJson[1].version
    IN  /\ version = call.baseVersion \o DepupTag \o NumberToString(call.revision)
        /\ call.manifest # None => call.manifest[1].version = version
        /\ call.entry # None =>
             /\ call.entry[1].outcome # None
             /\ call.entry[1].outcome[1].version = version
        /\ ParseProduced(version) = <<call.baseVersion, Some(call.revision)>>
        /\ \A v \in BaseVersionTexts, i \in RevisionNumbers :
             ProduceVersion(v, i) = version => v = call.baseVersion /\ i = call.revision

\* Revision 11 of a base version that is itself a produced version has
\* been written and recorded.
C27_Witness ==
  /\ call.fn = "version"
  /\ call.pc = "recorded"
  /\ call.baseVersion = VersionText(<<1, 0, 0>>) \o DepupTag \o <<"1">>
  /\ call.revision = 11
  /\ call.entry[1].outcome[1].version = call.manifest[1].version

\* ------------------------------------- the sync step's version comparison

\* current.replace(/[\^~]/, ''): the first caret or tilde is removed.
StripCaretOrTilde(range) ==
  IF range.op \in {"^", "~"} THEN [range EXCEPT !.op = ""] ELSE range

\* split('.').map(Number) of a declared range: a part that is not a number
\* gives NaN (None). An operator that was not removed is part of the first
\* part; "*" is a single part.
NumberParts(range) ==
  IF Len(range.v) = 3
  THEN [i \in 1..3 |-> IF i = 1 /\ range.op # "" THEN None ELSE Some(range.v[i])]
  ELSE <<None>>

\* parts[index] || 0
PartOrZero(parts, index) ==
  IF index <= Len(parts) /\ parts[index] # None THEN parts[index][1] ELSE 0

\* PackageSyncer.isVersionNewer(latest, current): the first index at which
\* the parts differ decides.
IsVersionNewer(latest, current) ==
  LET latestParts == [i \in 1..Len(latest) |-> Some(latest[i])]
      currentParts == NumberParts(StripCaretOrTilde(current))
      differ == {i \in 1..Max({Len(latestParts), Len(currentParts)}) :
                   PartOrZero(latestParts, i) # PartOrZero(currentParts, i)}
      first == CHOOSE i \in differ : \A j \in differ : i <= j
  IN  /\ differ # {}
      /\ PartOrZero(latestParts, first) > PartOrZero(currentParts, first)

\* Ranges a dependency may be declared with, and latest versions.
ComparedRanges ==
  {Range(op, v) : op \in {"", "^", "~", ">="},
                  v \in {<<1, 0, 0>>, <<1, 2, 0>>, <<2, 0, 0>>}}
    \cup {Range("", <<"*">>)}

ComparedLatest == {<<1, 0, 0>>, <<1, 2, 0>>, <<1, 10, 0>>, <<2, 0, 0>>}

\* The manifest of the latest revision, with the one dependency "a".
ComparedManifest(current) ==
  [name |-> "@depup/pkg",
   version |-> Some(ProduceVersion(VersionText(<<1, 0, 0>>), 0)),
   dependencies |-> [n \in {"a"} |-> current],
   devDependencies |-> [n \in {} |-> current]]

InitCompare ==
  /\ InitQuiet
  /\ secure = IdleSecure
  /\ workflow = NoWorkflow
  /\ \E latest \in ComparedLatest, current \in ComparedRanges :
       call = [fn |-> "compare", latest |-> latest, current |-> current,
               newer |-> None, bumped |-> None]

\* checkDependencyUpdates: the sync step's answer for the dependency.
CheckDependencyUpdates ==
  /\ call.fn = "compare"
  /\ call.newer = None
  /\ call' = [call EXCEPT !.newer = Some(IsVersionNewer(call.latest, call.current))]
  /\ CallFrame

\* bumpDependencies of the triggered run, the registry answering the same.
BumpTriggered ==
  /\ call.fn = "compare"
  /\ call.bumped = None
  /\ call' = [call EXCEPT !.bumped =
       Some(BumpedPackageJson(ComparedManifest(call.current),
                              [n \in DepNames |-> call.latest]))]
  /\ CallFrame

NextCompare == CheckDependencyUpdates \/ BumpTriggered

SpecCompare == InitCompare /\ [][NextCompare]_vars

\* C28: the sync step calls latest newer exactly when it is greater than the
\* declared version, whatever operator the declaration carries, and a
\* dependency the sync step reports is rewritten by the bump pass.
C28_SyncComparisonIsSemver ==
  call.fn = "compare" /\ call.newer # None =>
    /\ Len(call.current.v) = 3 =>
         (call.newer[1] <=> SemverGt(call.latest, call.current.v))
    /\ call.newer[1] /\ call.bumped # None =>
         call.bumped[1].dependencies["a"] = Range("^", call.latest)

\* -------------------------------------------------- the secure pipeline

\* Package names and specs are sequences of the pieces between "@" signs,
\* the signs included: lodash@1.0.0 is <<"lodash", "@", "1.0.0">> and
\* @scope/pkg is <<"@", "scope/pkg">>.
PackageNames ==
  {<<"lodash">>, <<"left-pad">>, <<"hack-tool">>, <<"@", "scope/pkg">>}

PackageSpecs ==
  PackageNames \cup {name \o <<"@", "1.0.0">> : name \in PackageNames}

\* The list loadPackageAllowlist falls back to.
FallbackAllowlist ==
  <<(<<"lodash">>), (<<"react">>), (<<"express">>), (<<"axios">>), (<<"moment">>),
    (<<"jquery">>), (<<"vue">>), (<<"bootstrap">>), (<<"webpack">>),
    (<<"typescript">>)>>

\* config/security-allowlist.json: unreadable (None), without the key
\* allowlisted, or with a list.
AllowlistConfigs ==
  {None,
   Some([allowlisted |-> None]),
   Some([allowlisted |-> Some(<<(<<"left-pad">>)>>)]),
   Some([allowlisted |-> Some(<<(<<"lodash">>), (<<"hack-tool">>),
                                (<<"@", "scope/pkg">>)>>)])}

\* loadPackageAllowlist: config.allowlisted || [], or the fallback.
LoadPackageAllowlist(config) ==
  IF config = None THEN FallbackAllowlist
  ELSE IF config[1].allowlisted = None THEN <<>>
  ELSE config[1].allowlisted[1]

\* packageSpec.split('@')[0]: what precedes the first "@"; the empty string
\* (<<>>) when the spec begins with one.
RECURSIVE SplitAtFirst(_)
SplitAtFirst(packageSpec) ==
  IF packageSpec = <<>> \/ Head(packageSpec) = "@" THEN <<>>
  ELSE <<Head(packageSpec)>> \o SplitAtFirst(Tail(packageSpec))

MutAllowlistIncludesAnything(allowlist, packageName) == TRUE

\* allowlist.includes(packageName)
AllowlistIncludes(allowlist, packageName) ==
  \E i \in 1..Len(allowlist) : allowlist[i] = packageName

\* scanPackageManifest: the name matches one of the suspicious patterns.
Flagged(packageSpec) == SplitAtFirst(packageSpec) = <<"hack-tool">>

\* The steps of processPackageSecurely, in the order of the code.
Steps ==
  <<"validatePackageAllowlist", "performPreDownloadSecurityScan",
    "downloadAndExtractSecurely", "performPostExtractionScan",
    "performVulnerabilityScan", "analyzeDependencyCompatibility",
    "processInSandbox", "finalSecurityValidation",
    "publishWithSecurityAttestation">>

\* The conditions under which a step is called.
Called(step, options) ==
  CASE step \in {"performPreDownloadSecurityScan", "performPostExtractionScan"} ->
         ~options.skipMalwareScan
    [] step = "performVulnerabilityScan" -> ~options.skipVulnCheck
    [] step = "analyzeDependencyCompatibility" -> options.bumpDeps
    [] step = "publishWithSecurityAttestation" -> options.publish
    [] OTHER -> TRUE

\* The first step at or after position k that is called; Len(Steps) + 1
\* when none is.
RECURSIVE NextCalled(_, _)
NextCalled(k, options) ==
  IF k > Len(Steps) THEN k
  ELSE IF Called(Steps[k], options) THEN k
  ELSE NextCalled(k + 1, options)

\* Whether a step returns (TRUE) or throws: the allowlist validation and the
\* manifest scan are decided by the spec, the others may do either.
StepOutcomes(step, packageSpec, config) ==
  CASE step = "validatePackageAllowlist" ->
         {AllowlistIncludes(LoadPackageAllowlist(config), SplitAtFirst(packageSpec))}
    [] step = "performPreDownloadSecurityScan" -> {~Flagged(packageSpec)}
    [] OTHER -> BOOLEAN

SecureOptions ==
  [dryRun : BOOLEAN, bumpDeps : BOOLEAN, publish : BOOLEAN,
   skipVulnCheck : BOOLEAN, skipMalwareScan : BOOLEAN]

InitSecure ==
  /\ InitQuiet
  /\ call = NoCall
  /\ workflow = NoWorkflow
  /\ \E packageSpec \in PackageSpecs, options \in SecureOptions,
        config \in AllowlistConfigs :
       secure = [pc |-> "running", next |-> 1, packageSpec |-> packageSpec,
                 options |-> options, config |-> config, executed |-> <<>>]

\* Step k of processPackageSecurely is called: a throw ends the run, a
\* return leads to the next step that is called, or to the end.
RunStep(k) ==
  /\ secure.pc = "running"
  /\ secure.next = k
  /\ \E returns \in StepOutcomes(Steps[k], secure.packageSpec, secure.config) :
       LET following == NextCalled(k + 1, secure.options)
       IN  secure' = [secure EXCEPT
             !.executed = Append(@, Steps[k]),
             !.pc = IF ~returns THEN "failed"
                    ELSE IF following > Len(Steps) THEN "done" ELSE "running",
             !.next = IF returns THEN following ELSE k]
  /\ UNCHANGED <<pipeVars, ledgerVars, scoreVars, syncVars, writer, bumpCall,
                 harness, call, workflow>>

ValidatePackageAllowlist == RunStep(1)

PerformPreDownloadSecurityScan == RunStep(2)

DownloadAndExtractSecurely == RunStep(3)

PerformPostExtractionScan == RunStep(4)

PerformVulnerabilityScan == RunStep(5)

AnalyzeDependencyCompatibility == RunStep(6)

ProcessInSandbox == RunStep(7)

FinalSecurityValidation == RunStep(8)

PublishWithSecurityAttestation == RunStep(9)

NextSecure ==
  \/ ValidatePackageAllowlist
  \/ PerformPreDownloadSecurityScan
  \/ DownloadAndExtractSecurely
  \/ PerformPostExtractionScan
  \/ PerformVulnerabilityScan
  \/ AnalyzeDependencyCompatibility
  \/ ProcessInSandbox
  \/ FinalSecurityValidation
  \/ PublishWithSecurityAttestation

SpecSecure == InitSecure /\ [][NextSecure]_vars

\* The package a spec names: the scope, when there is one, belongs to it.
PackageNameOf(packageSpec) ==
  IF Head(packageSpec) = "@" THEN SubSeq(packageSpec, 1, 2) ELSE <<Head(packageSpec)>>

ApprovalNames == <<"left-pad", "lodash", "react">>

Rank(packageName) == CHOOSE i \in DOMAIN ApprovalNames : ApprovalNames[i] = packageName

\* allowlist.allowlisted.push(packageName); allowlist.allowlisted.sort()
RECURSIVE PushAndSort(_, _)
PushAndSort(allowlisted, packageName) ==
  IF allowlisted = <<>> THEN <<packageName>>
  ELSE IF Rank(packageName) <= Rank(Head(allowlisted))
       THEN <<packageName>> \o allowlisted
       ELSE <<Head(allowlisted)>> \o PushAndSort(Tail(allowlisted), packageName)

\* allowlist.allowlisted.includes(packageName)
Includes(allowlisted, packageName) ==
  \E i \in DOMAIN allowlisted : allowlisted[i] = packageName

\* The request stored in pending-approvals.json.
ApprovalRequest(packageName) ==
  [packageName |-> packageName, requestedAt |-> Now, status |-> "pending"]

\* delete pending[packageName]
Delete(pending, packageName) ==
  [n \in (DOMAIN pending) \ {packageName} |-> pending[n]]

\* The three files are absent: loadAllowlist gives an empty list,
\* loadPendingApprovals no request and loadApprovalLog no decision.
InitApproval ==
  /\ InitQuiet
  /\ call = NoCall
  /\ secure = IdleSecure
  /\ workflow = [pc |-> "ready", commands |-> 0, command |-> "none",
                 allowlisted |-> <<>>, pending |-> <<>>, decisions |-> <<>>]

WorkflowFrame ==
  UNCHANGED <<pipeVars, ledgerVars, scoreVars, syncVars, writer, bumpCall,
              harness, call, secure>>

\* security-approval request <package>
RequestApproval(packageName) ==
  /\ workflow.commands < MaxCommands
  /\ workflow' = [workflow EXCEPT
       !.commands = @ + 1,
       !.command = "request",
       !.pending = IF Includes(workflow.allowlisted, packageName)
                      \/ packageName \in DOMAIN workflow.pending
                   THEN @
                   ELSE Put(@, packageName, ApprovalRequest(packageName))]
  /\ WorkflowFrame

\* logDecision(packageName, decision, request, reason)
LogDecision(decisions, packageName, decision, request, reason) ==
  Append(decisions, [packageName |-> packageName, decision |-> decision,
                     timestamp |-> Now, reason |-> reason, requestInfo |-> request])

\* approvePackage(packageName, request)
ApprovePackage(packageName, request) ==
  workflow' = [workflow EXCEPT
    !.commands = @ + 1,
    !.command = "approve",
    !.allowlisted = IF Includes(@, packageName) THEN @ ELSE PushAndSort(@, packageName),
    !.pending = Delete(@, packageName),
    !.decisions = LogDecision(@, packageName, "approved", request, None)]

\* denyPackage(packageName, reason)
DenyPackage(packageName, reason) ==
  workflow' = [workflow EXCEPT
    !.commands = @ + 1,
    !.command = "deny",
    !.pending = Delete(@, packageName),
    !.decisions = LogDecision(@, packageName, "denied",
                     IF packageName \in DOMAIN workflow.pending
                     THEN Some(workflow.pending[packageName]) ELSE None,
                     Some(reason))]

\* security-approval review --approve <package>: the request argument of
\* approvePackage is undefined.
ReviewApprove(packageName) ==
  /\ workflow.commands < MaxCommands
  /\ ApprovePackage(packageName, None)
  /\ WorkflowFrame

\* security-approval review --deny <package>
ReviewDeny(packageName) ==
  /\ workflow.commands < MaxCommands
  /\ DenyPackage(packageName, "No reason provided")
  /\ WorkflowFrame

\* security-approval review: a pending request is selected and approved,
\* denied or deferred.
InteractiveReview(selectedPackage, decision) ==
  /\ workflow.commands < MaxCommands
  /\ selectedPackage \in DOMAIN workflow.pending
  /\ CASE decision = "approve" ->
            ApprovePackage(selectedPackage, Some(workflow.pending[selectedPackage]))
       [] decision = "deny" -> DenyPackage(selectedPackage, "")
       [] OTHER -> workflow' = [workflow EXCEPT !.commands = @ + 1, !.command = "defer"]
  /\ WorkflowFrame

NextApproval ==
  \/ \E n \in DOMAIN ApprovalNames : RequestApproval(ApprovalNames[n])
  \/ \E n \in DOMAIN ApprovalNames : ReviewApprove(ApprovalNames[n])
  \/ \E n \in DOMAIN ApprovalNames : ReviewDeny(ApprovalNames[n])
  \/ \E n \in DOMAIN ApprovalNames, decision \in {"approve", "deny", "defer"} :
       InteractiveReview(ApprovalNames[n], decision)

SpecApproval == InitApproval /\ [][NextApproval]_vars

\* C30: a package enters the allowlist only in a step that finds a request
\* for it pending, and the decision log only grows: an approval or a denial
\* adds exactly one entry at the end, any other command none.
C30_AllowlistNeedsReviewedRequest ==
  [][/\ \A n \in DOMAIN ApprovalNames :
          Includes(workflow'.allowlisted, ApprovalNames[n])
            /\ ~Includes(workflow.allowlisted, ApprovalNames[n])
          => ApprovalNames[n] \in DOMAIN workflow.pending
     /\ IsPrefix(workflow.decisions, workflow'.decisions)
     /\ Len(workflow'.decisions)
          = Len(workflow.decisions)
              + (IF workflow'.command \in {"approve", "deny"} THEN 1 ELSE 0)]_vars

\* --------------------------------------------------------- discovery

\* What discovery finds at <cwd>/<name>: no directory (None), a directory
\* without integrity.json (Some(None)), or the base versions that are keys
\* of the integrity.json there. The pipeline writes under
\* <cwd>/packages/<name>; the integrity meter writes under <cwd>/<name>.
DiscoveryDirectories ==
  {None, Some(None)} \cup {Some(Some(versions)) : versions \in SUBSET BaseVersions}

\* How the child pipeline started by createNewPackage ends: exit 0, an error
\* before the version directory is made, or an error after the revision
\* directory is made.
ChildRuns == {"ok", "fail_before", "fail_after"}

InitDiscover ==
  /\ InitQuiet
  /\ secure = IdleSecure
  /\ workflow = NoWorkflow
  /\ \E directory \in DiscoveryDirectories, latest \in BaseVersions :
       call = [fn |-> "discover", passes |-> 0, directory |-> directory,
               latest |-> latest, started |-> <<>>, last |-> "none"]

\* packageExists(packageDirectory)
PackageExists(directory) == directory # None

\* createNewPackage: the child `depup.mjs <name>@<version> --bump-deps --test
\* --publish` runs under <cwd>/packages/<name>.
CreateNewPackage(version) ==
  \E child \in ChildRuns, published \in BOOLEAN :
    LET r == NextRevision(revDirs[version])
        produced == ProduceVersion(VersionText(version), r)
    IN  /\ call' = [call EXCEPT
              !.passes = @ + 1,
              !.started = Append(@, version),
              !.last = IF child = "ok" THEN "run_ok" ELSE "run_failed"]
        /\ revDirs' = IF child = "fail_before" THEN revDirs
                      ELSE [revDirs EXCEPT ![version] = @ \cup {r}]
        /\ revManifest' = IF child = "ok"
                          THEN Put(revManifest, <<version, r>>, Some(produced))
                          ELSE revManifest
        /\ registry' = IF child = "ok" /\ published
                       THEN registry \cup {produced} ELSE registry
        /\ integrity' = IF child = "ok"
                        THEN DepUpUpdateIntegrityData(integrity, version, r, produced,
                               OutcomeStatus(TRUE, published))
                        ELSE integrity
        /\ clock' = IF child = "ok" THEN clock + 1 ELSE clock

\* A pass that starts no child.
PassWithoutRun(result) ==
  /\ call' = [call EXCEPT !.passes = @ + 1, !.last = result]
  /\ UNCHANGED <<revDirs, revManifest, registry, integrity, clock>>

\* processPackage(package_) of one discovery pass, the registry reporting
\* call.latest as the package's latest version.
DiscoveryPass ==
  /\ call.fn = "discover"
  /\ call.passes < MaxRuns
  /\ IF ~PackageExists(call.directory)
     THEN CreateNewPackage(call.latest)
     ELSE IF call.directory[1] = None
     THEN PassWithoutRun("no_integrity_data")
     ELSE \E reply \in {"latest", "error"} :
            IF reply = "error" THEN PassWithoutRun("could_not_check")
            ELSE IF call.latest \in call.directory[1][1]
            THEN PassWithoutRun("up_to_date")
            ELSE CreateNewPackage(call.latest)
  /\ UNCHANGED <<run, runsStarted, allocLog, createLog, votes, opsDone, lastOp>>
  /\ UNCHANGED <<scoreVars, syncVars, writer, bumpCall, harness, secure, workflow>>

SpecDiscover == InitDiscover /\ [][DiscoveryPass]_vars

\* The revisions the pipeline has recorded for a base version.
RecordedRevisions(file, baseVersion) ==
  {k \in DOMAIN ReadJson(file) : k[1] = baseVersion}

\* C33: a discovery pass starts a pipeline run only when the pipeline has
\* recorded no revision for the latest upstream version, and the pass that
\* follows a successful one starts no run and allocates no revision.
C33_DiscoveryIdempotent ==
  [][call'.passes # call.passes =>
       /\ Len(call'.started) > Len(call.started) =>
            RecordedRevisions(integrity, call.latest) = {}
       /\ call.last = "run_ok" =>
            call'.started = call.started /\ revDirs' = revDirs]_vars

\* ------------------------------------------- the package's current version

\* Base versions an integrity.json may record, one and two digits long.
RecordedVersions ==
  {<<1, 0, 0>>, <<1, 2, 3>>, <<1, 9, 0>>, <<1, 10, 0>>, <<2, 0, 0>>,
   <<9, 0, 0>>, <<10, 0, 0>>}

UpstreamLatest == {<<9, 0, 0>>, <<10, 0, 0>>, <<11, 0, 0>>}

InitLatest ==
  /\ InitQuiet
  /\ secure = IdleSecure
  /\ workflow = NoWorkflow
  /\ \E versions \in (SUBSET RecordedVersions) \ {{}}, latest \in UpstreamLatest :
       call = [fn |-> "sync", versions |-> versions, latest |-> latest,
               packages |-> None, update |-> None]

\* getExistingPackages on packages/ holding the one package directory.
ListExistingPackages ==
  /\ call.fn = "sync"
  /\ call.packages = None
  /\ call' = [call EXCEPT !.packages =
       Some(GetExistingPackages(<<DirEntry(1, TRUE, FALSE, Some(call.versions))>>))]
  /\ CallFrame

\* syncPackage: latestVersion !== package_.version decides on the update.
CompareWithUpstream ==
  /\ call.fn = "sync"
  /\ call.packages # None
  /\ call.update = None
  /\ call' = [call EXCEPT !.update =
       Some(VersionText(call.latest) # VersionText(call.packages[1][1].version))]
  /\ CallFrame

NextLatest == ListExistingPackages \/ CompareWithUpstream

SpecLatest == InitLatest /\ [][NextLatest]_vars

\* C34: the version reported as the package's current version is the
\* greatest recorded base version in numeric semver order, also when the
\* recorded versions differ in their number of digits, and the sync step
\* asks for an update exactly when upstream's latest differs from it.
C34_CurrentIsGreatestRecorded ==
  call.fn = "sync" /\ call.packages # None =>
    LET current == call.packages[1][1].version
    IN  /\ current \in call.versions
        /\ \A w \in call.versions : ~SemverGt(w, current)
        /\ call.update # None => (call.update[1] <=> call.latest # current)

\* ------------------------------------ the revision the sync step inspects

\* How many revisions of the version exist: rev-0 .. rev-(n-1), as the
\* pipeline allocates them.
RevisionCounts == 0..12

\* What else the version directory may hold.
OtherEntries ==
  {[name |-> RevPrefix \o <<"9", "9">>, isDirectory |-> FALSE],
   [name |-> <<"9">>, isDirectory |-> TRUE],
   [name |-> <<"1", ".", "0">>, isDirectory |-> FALSE]}

RevisionEntries(n) ==
  {[name |-> RevPrefix \o NumberToString(k), isDirectory |-> TRUE] : k \in 0..(n - 1)}

InitInspect ==
  /\ InitQuiet
  /\ secure = IdleSecure
  /\ workflow = NoWorkflow
  /\ \E n \in RevisionCounts, others \in SUBSET OtherEntries, manifests \in BOOLEAN :
       call = [fn |-> "readdir", entries |-> RevisionEntries(n) \cup others,
               manifests |-> manifests]

\* entries.filter(...).map(...).sort()
RevDirectories(entries) ==
  {e.name : e \in {f \in entries : f.isDirectory /\ StartsWith(f.name, RevPrefix)}}

\* revDirectories.at(-1) of the sorted names.
LatestRevDirectory(revDirectories) ==
  CHOOSE name \in revDirectories :
    \A other \in revDirectories : other = name \/ StringLess(other, name)

\* checkDependencyUpdates up to the manifest it reads: None when it
\* returns false before reading one.
InspectLatestRevision ==
  /\ call.fn = "readdir"
  /\ call' = [fn |-> "inspected", entries |-> call.entries, manifests |-> call.manifests,
              inspected |->
                IF RevDirectories(call.entries) = {} \/ ~call.manifests THEN None
                ELSE Some(LatestRevDirectory(RevDirectories(call.entries)))]
  /\ CallFrame

SpecInspect == InitInspect /\ [][InspectLatestRevision]_vars

\* C35: the manifest the sync step inspects is the one of the revision
\* with the greatest numeric index, however many revisions exist.
C35_InspectsGreatestRevision ==
  call.fn = "inspected" /\ call.inspected # None =>
    call.inspected[1] = RevPrefix \o NumberToString(Max(NamedRevisions(call.entries)))

\* ------------------------------------------- displayed and stored bucket

\* Tallies of the display: totals up to 60, so that a percentage falls
\* between a half below a threshold and the threshold. A total of 40 is
\* left out: there the double (23 / 40) * 100 lies below the exact 57.5,
\* which the exact quotient of Score does not follow.
DisplayTallies ==
  {t \in [up : 0..40, down : 0..3, neutral : 0..17] :
     t.up + t.down + t.neutral # 40}

\* Number.prototype.toFixed(1) of num / den, den > 0: the sign, then the
\* nearest number of tenths (the larger of two equally near ones) with one
\* digit after the point.
ToFixed1(num, den) ==
  LET magnitude == IF num < 0 THEN 0 - num ELSE num
      tenths == (20 * magnitude + den) \div (2 * den)
  IN  (IF num < 0 THEN <<"-">> ELSE <<>>)
        \o NaturalToString(tenths \div 10) \o <<".">> \o NaturalToString(tenths % 10)

\* ToNumber of such a text, rounded down to an integer: comparing the
\* number with an integer threshold by >= is comparing this integer.
FloorOfText(text) ==
  LET negative == Head(text) = "-"
      unsigned == IF negative THEN Tail(text) ELSE text
      whole == DecimalValue(SubSeq(unsigned, 1, Len(unsigned) - 2))
      tenth == DigitValue(unsigned[Len(unsigned)])
  IN  IF negative THEN (0 - (10 * whole + tenth)) \div 10 ELSE whole

\* The status printStatus and report show for a tally.
DisplayedStatus(data) ==
  LET total == data.up + data.down + data.neutral
  IN  IF total > 0
      THEN GetStatusEmoji(FloorOfText(ToFixed1(100 * (data.up - data.down), total)))
      ELSE GetStatusEmoji(0)

InitDisplay ==
  /\ InitQuiet
  /\ secure = IdleSecure
  /\ workflow = NoWorkflow
  /\ \E data \in DisplayTallies :
       call = [fn |-> "display", data |-> data, emoji |-> None,
               stored |-> None, stats |-> None]

\* printStatus (and the line of report) for the tally.
PrintStatus ==
  /\ call.fn = "display"
  /\ call.emoji = None
  /\ call' = [call EXCEPT !.emoji = Some(DisplayedStatus(call.data))]
  /\ CallFrame

\* updateIntegrityData: the score stored for the tally.
StoreScore ==
  /\ call.fn = "display"
  /\ call.stored = None
  /\ call' = [call EXCEPT !.stored = Some(Score(call.data))]
  /\ CallFrame

\* getSystemStats counts the stored score.
CountStored ==
  /\ call.fn = "display"
  /\ call.stored # None
  /\ call.stats = None
  /\ call' = [call EXCEPT !.stats = Some(GetSystemStats(call.stored[1]))]
  /\ CallFrame

NextDisplay == PrintStatus \/ StoreScore \/ CountStored

SpecDisplay == InitDisplay /\ [][NextDisplay]_vars

\* C36: for every tally the bucket of the status the meter displays is
\* the bucket in which the monitor counts the score stored for the tally.
C36_DisplayedBucketIsStoredBucket ==
  call.fn = "display" /\ call.emoji # None /\ call.stats # None =>
    call.stats[1][CounterOfBucket(BucketOfEmoji(call.emoji[1]))] = 1

=============================================================================
